---- MODULE Spec2Model ----
(***************************************************************************)
(* Beam-state machine (TreeSearch), Beam selection, and lexically          *)
(* constrained beam search of parlai/core/torch_generator_agent.py and     *)
(* parlai/core/search.py.                                                  *)
(*                                                                         *)
(* Conventions.  Beam slots and token ids are 0-based as in the source     *)
(* (functions over 0..n-1); lists indexed by timestep are sequences, so    *)
(* the source's outputs[t] is outputs[t+1] here.  Log-probabilities are    *)
(* integers, -inf is NegInf, and Add saturates at NegInf like float        *)
(* addition does.  torch.topk / torch.sort leave the order of equal        *)
(* elements unspecified: every such call takes a tie-break parameter that  *)
(* the actions choose nondeterministically.                                *)
(***************************************************************************)
EXTENDS Integers, Sequences, FiniteSets, TLC

\* ------------------------------------------------------------------ bounds
MaxBeam == 2
VocabSize == 4
MaxSteps == 3
MaxCbsSteps == 2

\* ------------------------------------------------------- program constants
pad == 0
bos == 1
eos == 2
NegInf == -100000

Tokens == 0..(VocabSize - 1)
BeamSizes == 1..MaxBeam
TieBreaks == {"lo", "hi"}
\* finite log-probabilities fed to the machine (scaled to integers)
LpFinite == {-1}
LpVals == LpFinite \cup {NegInf}
\* an optional value: <<>> is python's None, <<v>> holds v
None == <<>>
Some(v) == <<v>>
Get(o) == o[1]

\* float results that are neither a finite number nor -inf
PosInf == 100000
NaN == 100001

VARIABLES
    \* TreeSearch configuration (constructor arguments, set_context, set_block_list)
    beam_size, min_length, block_ngram, context_block_ngram, context, block_list,
    length_penalty,
    \* the TreeSearch subclass whose select_paths advance calls, with its k and
    \* delay (0 where the class has none)
    policy,
    \* TreeSearch state
    scores, all_scores, bookkeep, outputs, finished, eos_top, eos_top_ts,
    n_best_counter, partial_hyps,
    \* result of get_rescored_finished and the exception that ended a call
    n_best_list, error, phase,
    \* ConstrainedBeamSearch buffers (row b holds the columns written so far:
    \* tokens[b][c + 1] is self.tokens[b, c], the columns after them still hold
    \* pad / 0) and LexicallyConstrainedBeamSearch.constraint_states
    cbs_scores, tokens, cands_to_ignore, cbs_finalized, cbs_finished,
    num_remaining_sent, constraint_states,
    \* history: for each entry of cbs_finalized, the constraint state its source
    \* slot held when it was finalized
    finalized_from,
    \* a direct call of one method: its arguments and what it returned
    call, ret

tsCfg == <<beam_size, min_length, block_ngram, context_block_ngram, context,
           block_list, length_penalty, policy>>
tsState == <<scores, all_scores, bookkeep, outputs, finished, eos_top, eos_top_ts,
             n_best_counter, partial_hyps>>
tsVars == <<tsCfg, tsState, n_best_list, error, phase>>
cbsVars == <<cbs_scores, tokens, cands_to_ignore, cbs_finalized, cbs_finished,
             num_remaining_sent, constraint_states, finalized_from>>
fnVars == <<call, ret>>

Slots == 0..(beam_size - 1)

\* ----------------------------------------------------------------- helpers
Add(a, b) == IF a = NegInf \/ b = NegInf THEN NegInf ELSE a + b

Last(s) == s[Len(s)]

\* python's lst[-m:]  (m = 0 gives the whole list, m > len gives the whole list)
Suffix(lst, m) ==
    IF m = 0 \/ m >= Len(lst) THEN lst ELSE SubSeq(lst, Len(lst) - m + 1, Len(lst))

\* TreeSearch._find_ngrams: every window of n consecutive items
FindNgrams(input_list, n) ==
    IF Len(input_list) < n THEN {}
    ELSE {SubSeq(input_list, i, i + n - 1) : i \in 1..(Len(input_list) - n + 1)}

\* the element of S that torch ranks first: highest value, ties by the
\* tie-break ("lo": lowest index first, "hi": highest index first)
BestOf(flat, S, tb) ==
    CHOOSE i \in S : \A j \in S :
        \/ flat[i] > flat[j]
        \/ flat[i] = flat[j] /\ (IF tb = "lo" THEN i <= j ELSE i >= j)

RECURSIVE TopKFrom(_, _, _, _)
TopKFrom(flat, S, k, tb) ==
    IF k = 0 \/ S = {} THEN <<>>
    ELSE LET b == BestOf(flat, S, tb)
         IN  <<b>> \o TopKFrom(flat, S \ {b}, k - 1, tb)

\* a top-k that returns the k largest entries in ascending order
TopKAscending(flat, k, tb) ==
    [i \in 1..k |-> TopKFrom(flat, DOMAIN flat, k, tb)[k + 1 - i]]

\* torch.topk(flat, k): indices of the k largest entries, in descending order
TopK(flat, k, tb) == TopKFrom(flat, DOMAIN flat, k, tb)

\* select_paths that looks at the first row only
BeamSelectRow0(logprobs, prior_scores, k, tb) ==
    LET best_idxs == TopK([i \in 0..(VocabSize - 1) |-> Add(logprobs[0][i], prior_scores[0])],
                          k, tb)
    IN  [hyp_ids |-> [s \in 0..(k - 1) |-> 0],
         tok_ids |-> [s \in 0..(k - 1) |-> best_idxs[s + 1]],
         scores  |-> [s \in 0..(k - 1) |-> Add(logprobs[0][best_idxs[s + 1]], prior_scores[0])]]

\* ------------------------------------------------ BeamSearch.select_paths
BeamSelect(logprobs, prior_scores, k, tb) ==
    LET voc_size == VocabSize
        rows == IF Cardinality(DOMAIN prior_scores) = 1 THEN {0} ELSE DOMAIN logprobs
        n == Cardinality(rows) * voc_size
        flat_beam_scores ==
            [i \in 0..(n - 1) |->
                Add(logprobs[i \div voc_size][i % voc_size], prior_scores[i \div voc_size])]
        best_idxs == TopK(flat_beam_scores, k, tb)
    IN  [hyp_ids |-> [s \in 0..(k - 1) |-> best_idxs[s + 1] \div voc_size],
         tok_ids |-> [s \in 0..(k - 1) |-> best_idxs[s + 1] % voc_size],
         scores  |-> [s \in 0..(k - 1) |-> flat_beam_scores[best_idxs[s + 1]]]]

\* ------------------------------------------------ GreedySearch.select_paths
\* logprobs.max(1) per row, plus the prior score of the row (a prior of one
\* element is broadcast over the rows)
GreedySelect(logprobs, prior_scores, tb) ==
    LET rows == DOMAIN logprobs
        prior(h) == IF Cardinality(DOMAIN prior_scores) = 1
                    THEN prior_scores[0] ELSE prior_scores[h]
        tok_ids == [h \in rows |-> BestOf(logprobs[h], Tokens, tb)]
    IN  [hyp_ids |-> [h \in rows |-> h],
         tok_ids |-> tok_ids,
         scores  |-> [h \in rows |-> Add(logprobs[h][tok_ids[h]], prior(h))]]

\* ------------------------------------- TopKSampling / NucleusSampling
\* NucleusSampling's p, as a fraction
NucleusP == [num |-> 1, den |-> 2]

\* floor of the base-2 logarithm
RECURSIVE Log2(_)
Log2(m) == IF m <= 1 THEN 0 ELSE 1 + Log2(m \div 2)

\* TopKSampling.select_paths: the tokens torch.multinomial can draw in row h,
\* those of the k highest entries whose softmax weight is not 0
TopKDraws(logprobs, h, k, tb) ==
    {t \in Tokens : logprobs[h][t] # NegInf
                    /\ \E i \in 1..k : TopK(logprobs[h], k, tb)[i] = t}

\* the weight torch.softmax gives an entry of a row, as a multiple of the weight
\* of the row's lowest finite entry (log-probabilities in units of ln 2)
SoftmaxWeight(row, t) ==
    IF row[t] = NegInf THEN 0
    ELSE LET low == CHOOSE u \in DOMAIN row :
                       row[u] # NegInf /\ \A v \in DOMAIN row : row[v] # NegInf => row[u] <= row[v]
         IN  2 ^ (row[t] - row[low])

\* sprobs.cumsum(dim=-1)[i] for the order sinds, in the same unit
RECURSIVE CumWeight(_, _, _)
CumWeight(row, sinds, i) ==
    IF i = 0 THEN 0 ELSE CumWeight(row, sinds, i - 1) + SoftmaxWeight(row, sinds[i])

\* a nucleus that masks by the inclusive prefix sum
NucleusDrawsInclusive(logprobs, h, tb) ==
    LET sinds == TopK(logprobs[h], VocabSize, tb)
        total == CumWeight(logprobs[h], sinds, VocabSize)
    IN  {sinds[i] : i \in {j \in 1..VocabSize :
            /\ SoftmaxWeight(logprobs[h], sinds[j]) > 0
            /\ CumWeight(logprobs[h], sinds, j) * NucleusP.den < NucleusP.num * total}}

\* NucleusSampling.select_paths (lines 1722-1728): the tokens torch.multinomial
\* can draw in row h, those whose exclusive prefix sum in the descending order
\* is below p
NucleusDraws(logprobs, h, tb) ==
    LET sinds == TopK(logprobs[h], VocabSize, tb)
        total == CumWeight(logprobs[h], sinds, VocabSize)
    IN  {sinds[i] : i \in {j \in 1..VocabSize :
            /\ SoftmaxWeight(logprobs[h], sinds[j]) > 0
            /\ CumWeight(logprobs[h], sinds, j - 1) * NucleusP.den < NucleusP.num * total}}

\* the weight of a set of tokens of a row
RECURSIVE SetWeight(_, _)
SetWeight(row, S) ==
    IF S = {} THEN 0
    ELSE LET t == CHOOSE u \in S : TRUE
         IN  SoftmaxWeight(row, t) + SetWeight(row, S \ {t})

\* what the two sampling policies return, one record per possible draw; a row
\* without a finite entry has softmax weights NaN and torch.multinomial raises.
\* The score added is the entry itself (top-k) or the logarithm of the
\* renormalised weight, in units of ln 2 and rounded to an integer (nucleus).
SamplingSelect(logprobs, prior_scores, draws) ==
    LET rows == DOMAIN logprobs
        prior(h) == IF Cardinality(DOMAIN prior_scores) = 1
                    THEN prior_scores[0] ELSE prior_scores[h]
        gain(h, tok) == IF policy.name = "nucleus"
                        THEN 0 - Log2(SetWeight(logprobs[h], draws[h])
                                          \div SoftmaxWeight(logprobs[h], tok))
                        ELSE logprobs[h][tok]
    IN  IF \E h \in rows : draws[h] = {}
        THEN {[error |-> "RuntimeError"]}
        ELSE {[error |-> "none",
               hyp_ids |-> [h \in rows |-> h],
               tok_ids |-> tok_ids,
               scores |-> [h \in rows |-> Add(gain(h, tok_ids[h]), prior(h))]] :
                tok_ids \in {f \in [rows -> Tokens] : \A h \in rows : f[h] \in draws[h]}}

\* a DelayedBeamSearch that still samples at current_length = delay
SelectPathsLateSwitch(logprobs, prior_scores, current_length, tb) ==
    IF policy.name = "greedy"
    THEN {[error |-> "none"] @@ GreedySelect(logprobs, prior_scores, tb)}
    ELSE IF policy.name = "topk"
            \/ (policy.name = "delayed" /\ current_length <= policy.delay)
    THEN SamplingSelect(logprobs, prior_scores,
                        [h \in DOMAIN logprobs |-> TopKDraws(logprobs, h, policy.k, tb)])
    ELSE IF policy.name = "nucleus"
    THEN SamplingSelect(logprobs, prior_scores,
                        [h \in DOMAIN logprobs |-> NucleusDraws(logprobs, h, tb)])
    ELSE {[error |-> "none"] @@ BeamSelect(logprobs, prior_scores, beam_size, tb)}

\* select_paths of the machine's policy: every result it can return
SelectPaths(logprobs, prior_scores, current_length, tb) ==
    IF policy.name = "greedy"
    THEN {[error |-> "none"] @@ GreedySelect(logprobs, prior_scores, tb)}
    ELSE IF policy.name = "topk"
            \/ (policy.name = "delayed" /\ current_length < policy.delay)
    THEN SamplingSelect(logprobs, prior_scores,
                        [h \in DOMAIN logprobs |-> TopKDraws(logprobs, h, policy.k, tb)])
    ELSE IF policy.name = "nucleus"
    THEN SamplingSelect(logprobs, prior_scores,
                        [h \in DOMAIN logprobs |-> NucleusDraws(logprobs, h, tb)])
    ELSE {[error |-> "none"] @@ BeamSelect(logprobs, prior_scores, beam_size, tb)}

\* ------------------------------------------------- TreeSearch masking steps
\* a minimum-length guard that stops one step early
MinLengthMaskEarly(logprobs, current_length) ==
    IF current_length < min_length - 1
    THEN [h \in DOMAIN logprobs |-> [logprobs[h] EXCEPT ![eos] = NegInf]]
    ELSE logprobs

\* lines 1428-1432: eos is penalised while the hypotheses are too short
MinLengthMask(logprobs, current_length) ==
    IF current_length < min_length
    THEN [h \in DOMAIN logprobs |-> [logprobs[h] EXCEPT ![eos] = NegInf]]
    ELSE logprobs

\* lines 1437-1441: slots that ended in eos get a prior of -inf
EosPenalty(prior) ==
    [h \in DOMAIN prior |-> IF Last(outputs)[h] = eos THEN NegInf ELSE prior[h]]

\* n-gram blocking that compares one token too few of the hypothesis
BlockedByShort(hyp, source_, ngram_size) ==
    IF Len(hyp) < ngram_size THEN {}
    ELSE {ngram[ngram_size] : ngram \in
            {g \in FindNgrams(SubSeq(source_, 1, Len(source_) - 1), ngram_size) :
                ngram_size = 1 \/ Suffix(hyp, ngram_size - 1) = SubSeq(g, 1, ngram_size - 1)}}

\* TreeSearch._block_ngrams: tokens that complete an n-gram of the source
BlockedBy(hyp, source_, ngram_size) ==
    IF Len(hyp) < ngram_size - 1 THEN {}
    ELSE {ngram[ngram_size] : ngram \in
            {g \in FindNgrams(source_, ngram_size) :
                ngram_size = 1 \/ Suffix(hyp, ngram_size - 1) = SubSeq(g, 1, ngram_size - 1)}}

BlockNgrams(ngram_size, logprobs, source) ==
    [h \in DOMAIN logprobs |->
        LET hyp == partial_hyps[h]
            source_ == IF source = None THEN hyp ELSE Get(source)
            blocked == BlockedBy(hyp, source_, ngram_size)
        IN  [t \in Tokens |-> IF t \in blocked THEN NegInf ELSE logprobs[h][t]]]

\* a block list that only bans its single-token phrases
BlockBlockListUnigrams(logprobs) ==
    IF block_list = None THEN logprobs
    ELSE [h \in DOMAIN logprobs |->
            [t \in Tokens |-> IF << t >> \in Get(block_list) THEN NegInf
                              ELSE logprobs[h][t]]]

\* TreeSearch._block_block_list
BlockBlockList(logprobs) ==
    IF block_list = None THEN logprobs
    ELSE [h \in DOMAIN logprobs |->
            LET hyp == partial_hyps[h]
                blocked == {ngram[Len(ngram)] : ngram \in
                              {g \in Get(block_list) :
                                  Len(g) = 1 \/ Suffix(hyp, Len(g) - 1) = SubSeq(g, 1, Len(g) - 1)}}
            IN  [t \in Tokens |-> IF t \in blocked THEN NegInf ELSE logprobs[h][t]]]

\* the log-probabilities handed to select_paths (lines 1428-1456)
MaskedLogprobs(logprobs) ==
    LET l1 == MinLengthMask(logprobs, Len(all_scores) - 1)
        l2 == IF block_ngram > 0 THEN BlockNgrams(block_ngram, l1, None) ELSE l1
        l3 == BlockBlockList(l2)
    IN  IF context_block_ngram > 0 /\ context # None
        THEN BlockNgrams(context_block_ngram, l3, context)
        ELSE l3

\* the prior scores handed to select_paths (lines 1434-1441)
PriorScores == EosPenalty(IF scores = None THEN [h \in {0} |-> 0] ELSE scores)

\* ---------------------------------------------------- TreeSearch.__init__
\* the fields set by lines 1306-1332
TSFields(bs, ml, bn, cbn, lenpen, ctx, bl) ==
    /\ beam_size = bs
    /\ min_length = ml
    /\ block_ngram = bn
    /\ context_block_ngram = cbn
    /\ length_penalty = lenpen
    /\ context = ctx
    /\ block_list = bl
    /\ scores = None
    /\ all_scores = << [h \in 0..(bs - 1) |-> 0] >>
    /\ bookkeep = << >>
    /\ outputs = << [h \in 0..(bs - 1) |-> bos] >>
    /\ finished = << >>
    /\ eos_top = FALSE
    /\ eos_top_ts = None
    /\ n_best_counter = 0
    /\ partial_hyps = [h \in 0..(bs - 1) |-> <<bos>>]
    /\ n_best_list = << >>

\* the subclasses of TreeSearch (lines 1604-1735)
Policy(name, k, delay) == [name |-> name, k |-> k, delay |-> delay]

\* a BeamSearch constructor that returned (ConstrainedBeamSearch overrides
\* select_paths and reads no policy)
TSInit(bs, ml, bn, cbn, lenpen, ctx, bl) ==
    /\ TSFields(bs, ml, bn, cbn, lenpen, ctx, bl)
    /\ policy = Policy("beam", 0, 0)
    /\ error = "none"
    /\ phase = "decoding"

\* a Greedy constructor that accepts every beam size
GreedyValidateNone(bs) ==
    /\ error = "none"
    /\ phase = "decoding"

\* GreedySearch.__init__ after super().__init__ (lines 1614-1615)
GreedyValidate(bs) ==
    IF bs # 1
    THEN /\ error = "ValueError"
         /\ phase = "raised"
    ELSE /\ error = "none"
         /\ phase = "decoding"

\* GreedySearch.__init__
GreedyInit(bs, ml, bn, cbn, lenpen, ctx, bl) ==
    /\ TSFields(bs, ml, bn, cbn, lenpen, ctx, bl)
    /\ policy = Policy("greedy", 0, 0)
    /\ GreedyValidate(bs)

\* _HypothesisTail
HypothesisTail(timestep, hypid, score, tokenid) ==
    [timestep |-> timestep, hypid |-> hypid, score |-> score, tokenid |-> tokenid]

\* recording that does not skip the slots whose score is -inf
RECURSIVE NewFinishedAll(_, _, _, _)
NewFinishedAll(h, tok_ids, new_scores, timestep) ==
    IF h >= beam_size THEN << >>
    ELSE (IF tok_ids[h] = eos
          THEN << [timestep |-> timestep, hypid |-> h, score |-> new_scores[h],
                   tokenid |-> eos] >>
          ELSE << >>)
         \o NewFinishedAll(h + 1, tok_ids, new_scores, timestep)

\* lines 1472-1485: the tails of the slots that just emitted eos, in slot order
RECURSIVE NewFinished(_, _, _, _)
NewFinished(h, tok_ids, new_scores, timestep) ==
    IF h >= beam_size THEN << >>
    ELSE (IF tok_ids[h] = eos /\ ~(new_scores[h] <= NegInf)
          THEN << HypothesisTail(timestep, h, new_scores[h], eos) >>
          ELSE << >>)
         \o NewFinished(h + 1, tok_ids, new_scores, timestep)

\* a recording that forgets the backpointers
RecordNoBackpointers(sel) ==
    LET timestep == Len(outputs)
        fin == NewFinished(0, sel.tok_ids, sel.scores, timestep)
    IN  /\ scores' = sel.scores
        /\ all_scores' = Append(all_scores, sel.scores)
        /\ bookkeep' = bookkeep
        /\ partial_hyps' =
              [h \in Slots |-> Append(partial_hyps[sel.hyp_ids[h]], sel.tok_ids[h])]
        /\ finished' = finished \o fin
        /\ n_best_counter' = n_best_counter + Len(fin)
        /\ eos_top' = (eos_top \/ sel.tok_ids[0] = eos)
        /\ eos_top_ts' = IF sel.tok_ids[0] = eos /\ eos_top_ts = None
                         THEN Some(timestep) ELSE eos_top_ts

\* advance as it would be if it stored the flat index of the chosen candidate
\* (slot * vocabulary size + token) as the backpointer
RecordFlatIndex(sel) ==
    LET timestep == Len(outputs)
        fin == NewFinished(0, sel.tok_ids, sel.scores, timestep)
    IN  /\ scores' = sel.scores
        /\ all_scores' = Append(all_scores, sel.scores)
        /\ bookkeep' = Append(bookkeep,
                              [h \in DOMAIN sel.hyp_ids |->
                                  sel.hyp_ids[h] * VocabSize + sel.tok_ids[h]])
        /\ partial_hyps' =
              [h \in Slots |-> Append(partial_hyps[sel.hyp_ids[h]], sel.tok_ids[h])]
        /\ finished' = finished \o fin
        /\ n_best_counter' = n_best_counter + Len(fin)
        /\ eos_top' = (eos_top \/ sel.tok_ids[0] = eos)
        /\ eos_top_ts' = IF sel.tok_ids[0] = eos /\ eos_top_ts = None
                         THEN Some(timestep) ELSE eos_top_ts


\* advance as it would be if it kept only the first slot's score in the score
\* history
RecordTopScore(sel) ==
    LET timestep == Len(outputs)
        fin == NewFinished(0, sel.tok_ids, sel.scores, timestep)
    IN  /\ scores' = sel.scores
        /\ all_scores' = Append(all_scores, [h \in {0} |-> sel.scores[0]])
        /\ bookkeep' = Append(bookkeep, sel.hyp_ids)
        /\ partial_hyps' =
              [h \in Slots |-> Append(partial_hyps[sel.hyp_ids[h]], sel.tok_ids[h])]
        /\ finished' = finished \o fin
        /\ n_best_counter' = n_best_counter + Len(fin)
        /\ eos_top' = (eos_top \/ sel.tok_ids[0] = eos)
        /\ eos_top_ts' = IF sel.tok_ids[0] = eos /\ eos_top_ts = None
                         THEN Some(timestep) ELSE eos_top_ts

\* a recording that recomputes the slot-0 flag and its timestep at every step
RecordLastEosTop(sel) ==
    LET timestep == Len(outputs)
        fin == NewFinished(0, sel.tok_ids, sel.scores, timestep)
    IN  /\ scores' = sel.scores
        /\ all_scores' = Append(all_scores, sel.scores)
        /\ bookkeep' = Append(bookkeep, sel.hyp_ids)
        /\ partial_hyps' =
              [h \in Slots |-> Append(partial_hyps[sel.hyp_ids[h]], sel.tok_ids[h])]
        /\ finished' = finished \o fin
        /\ n_best_counter' = n_best_counter + Len(fin)
        /\ eos_top' = (sel.tok_ids[0] = eos)
        /\ eos_top_ts' = IF sel.tok_ids[0] = eos THEN Some(timestep) ELSE eos_top_ts

\* lines 1458-1490: what advance does with the paths select_paths returned
\* (self.outputs is appended by the caller of this operator)
Record(sel) ==
    LET timestep == Len(outputs)   \* len(self.outputs) - 1 after the append
        fin == NewFinished(0, sel.tok_ids, sel.scores, timestep)
    IN  /\ scores' = sel.scores
        /\ all_scores' = Append(all_scores, sel.scores)
        /\ bookkeep' = Append(bookkeep, sel.hyp_ids)
        /\ partial_hyps' =
              [h \in Slots |-> Append(partial_hyps[sel.hyp_ids[h]], sel.tok_ids[h])]
        /\ finished' = finished \o fin
        /\ n_best_counter' = n_best_counter + Len(fin)
        /\ eos_top' = (eos_top \/ sel.tok_ids[0] = eos)
        /\ eos_top_ts' = IF sel.tok_ids[0] = eos /\ eos_top_ts = None
                         THEN Some(timestep) ELSE eos_top_ts

\* the log-probability tensors a caller can pass: beam_size rows, pad at -inf
\* (line 1161), every other entry finite or -inf
LogProbs == [Slots -> {r \in [Tokens -> LpVals] : r[pad] = NegInf}]

\* an advance that goes on without a context instead of raising
AdvanceWithSilent(logprobs, tb) ==
    LET sel == BeamSelect(MaskedLogprobs(logprobs), PriorScores, beam_size, tb)
    IN  /\ Record(sel)
        /\ outputs' = Append(outputs, sel.tok_ids)
        /\ UNCHANGED <<error, phase>>

\* the body of TreeSearch.advance with BeamSearch.select_paths, on the
\* tensor logprobs
AdvanceWith(logprobs, tb) ==
    IF context_block_ngram > 0 /\ context = None
    THEN /\ scores' = PriorScores
         /\ error' = "ValueError"
         /\ phase' = "raised"
         /\ UNCHANGED <<all_scores, bookkeep, outputs, finished, eos_top,
                        eos_top_ts, n_best_counter, partial_hyps>>
    ELSE LET sel == BeamSelect(MaskedLogprobs(logprobs), PriorScores, beam_size, tb)
         IN  /\ Record(sel)
             /\ outputs' = Append(outputs, sel.tok_ids)
             /\ UNCHANGED <<error, phase>>

\* the body of TreeSearch.advance with GreedySearch.select_paths
AdvanceWithGreedy(logprobs, tb) ==
    IF context_block_ngram > 0 /\ context = None
    THEN /\ scores' = PriorScores
         /\ error' = "ValueError"
         /\ phase' = "raised"
         /\ UNCHANGED <<all_scores, bookkeep, outputs, finished, eos_top,
                        eos_top_ts, n_best_counter, partial_hyps>>
    ELSE LET sel == GreedySelect(MaskedLogprobs(logprobs), PriorScores, tb)
         IN  /\ Record(sel)
             /\ outputs' = Append(outputs, sel.tok_ids)
             /\ UNCHANGED <<error, phase>>

\* TreeSearch.advance with the select_paths of the machine's policy
AdvancePolicy ==
    /\ phase = "decoding"
    /\ Len(all_scores) - 1 < MaxSteps
    /\ \E logprobs \in LogProbs, tb \in TieBreaks :
         IF context_block_ngram > 0 /\ context = None
         THEN AdvanceWith(logprobs, tb)
         ELSE \E sel \in SelectPaths(MaskedLogprobs(logprobs), PriorScores,
                                     Len(all_scores) - 1, tb) :
                IF sel.error # "none"
                THEN /\ scores' = PriorScores
                     /\ error' = sel.error
                     /\ phase' = "raised"
                     /\ UNCHANGED <<all_scores, bookkeep, outputs, finished, eos_top,
                                    eos_top_ts, n_best_counter, partial_hyps>>
                ELSE /\ Record(sel)
                     /\ outputs' = Append(outputs, sel.tok_ids)
                     /\ UNCHANGED <<error, phase>>
    /\ UNCHANGED <<tsCfg, n_best_list, cbsVars, fnVars>>

\* TreeSearch.advance on a GreedySearch
AdvanceGreedy ==
    /\ phase = "decoding"
    /\ Len(all_scores) - 1 < MaxSteps
    /\ \E logprobs \in LogProbs, tb \in TieBreaks : AdvanceWithGreedy(logprobs, tb)
    /\ UNCHANGED <<tsCfg, n_best_list, cbsVars, fnVars>>

\* TreeSearch.advance with BeamSearch.select_paths
Advance ==
    /\ phase = "decoding"
    /\ Len(all_scores) - 1 < MaxSteps
    /\ \E logprobs \in LogProbs, tb \in TieBreaks : AdvanceWith(logprobs, tb)
    /\ UNCHANGED <<tsCfg, n_best_list, cbsVars, fnVars>>

\* is_done with "or" in place of "and"
IsDoneEither == eos_top \/ n_best_counter >= beam_size

\* TreeSearch.is_done
IsDone == eos_top /\ n_best_counter >= beam_size

\* ------------------------------------------ TreeSearch.get_rescored_finished
\* a reconstruction that stops before timestep 0
RECURSIVE HypTokensNoStart(_, _, _)
HypTokensNoStart(outs, timestep, hypid) ==
    IF timestep = 0 THEN << >>
    ELSE Append(HypTokensNoStart(outs, timestep - 1, bookkeep[timestep][hypid]),
                outs[timestep + 1][hypid])

\* _get_hyp_from_finished + _get_pretty_hypothesis: the tokens from timestep 0
\* to the tail's timestep, following the backpointers
RECURSIVE HypTokens(_, _, _)
HypTokens(outs, timestep, hypid) ==
    IF timestep = 0 THEN << outs[1][hypid] >>
    ELSE Append(HypTokens(outs, timestep - 1, bookkeep[timestep][hypid]),
                outs[timestep + 1][hypid])

\* a length penalty that counts the steps taken instead of the tokens held
RescoreBySteps(tail) ==
    IF length_penalty = 0 \/ tail.score = NegInf
    THEN [num |-> tail.score, den |-> 1]
    ELSE [num |-> 6 * tail.score, den |-> 1 + tail.timestep]

\* score / math.pow((1 + current_length) / 6, length_penalty) as a fraction
\* num/den with den > 0, for the exponents 0 and 1
Rescore(tail) ==
    LET current_length == tail.timestep + 1
    IN  IF length_penalty = 0 \/ tail.score = NegInf
        THEN [num |-> tail.score, den |-> 1]
        ELSE [num |-> 6 * tail.score, den |-> 1 + current_length]

\* a.score > b.score for two rescored scores
RatGreater(a, b) ==
    IF b.num = NegInf THEN a.num # NegInf
    ELSE IF a.num = NegInf THEN FALSE
    ELSE a.num * b.den > b.num * a.den

\* a sort that leaves the items in the order they were collected
InsertDescUnsorted(srted, item) == Append(srted, item)

\* python's sorted(..., key=score, reverse=True): stable, descending
RECURSIVE InsertDesc(_, _)
InsertDesc(srted, item) ==
    IF srted = << >> THEN << item >>
    ELSE IF RatGreater(item.score, srted[1].score)
         THEN << item >> \o srted
         ELSE << srted[1] >> \o InsertDesc(Tail(srted), item)

RECURSIVE SortedDesc(_)
SortedDesc(items) ==
    IF items = << >> THEN << >>
    ELSE InsertDesc(SortedDesc(SubSeq(items, 1, Len(items) - 1)), Last(items))

CountEos(pred) == Cardinality({i \in 1..Len(pred) : pred[i] = eos})

NBestChoices == {None} \cup {Some(n) : n \in 1..MaxBeam}

\* the log-probability tensors the decode loop has handed to advance so far,
\* where the loop keeps them
Fed == IF call = None THEN << >> ELSE Get(call).fed

GetRescoredFinished ==
    /\ phase = "decoding"
    /\ \E n_best \in NBestChoices :
         LET forced == (finished = << >>)
             outs == IF forced
                     THEN [outputs EXCEPT ![Len(outputs)][0] = eos]
                     ELSE outputs
             fin == IF forced
                    THEN << HypothesisTail(Len(outputs) - 1, 0, Last(all_scores)[0], eos) >>
                    ELSE finished
             rescored_finished ==
                 [i \in 1..Len(fin) |->
                     [timestep |-> fin[i].timestep, hypid |-> fin[i].hypid,
                      score |-> Rescore(fin[i]), tokenid |-> fin[i].tokenid]]
             srted0 == SortedDesc(rescored_finished)
             srted == IF n_best = None THEN srted0
                      ELSE SubSeq(srted0, 1, IF Get(n_best) < Len(srted0)
                                            THEN Get(n_best) ELSE Len(srted0))
             nbl == [i \in 1..Len(srted) |->
                        [tokens |-> HypTokens(outs, srted[i].timestep, srted[i].hypid),
                         score |-> srted[i].score]]
         IN  /\ outputs' = outs
             /\ finished' = fin
             /\ phase' = "rescored"
             /\ call' = Some([n_best |-> n_best, fed |-> Fed])
             /\ IF bookkeep = << >>
                THEN \* self.bookkeep[i - 1] on the empty list
                     /\ error' = "IndexError"
                     /\ n_best_list' = << >>
                ELSE IF Len(nbl) < 1 \/ \E i \in 1..Len(nbl) : CountEos(nbl[i].tokens) # 1
                THEN /\ error' = "AssertionError"
                     /\ n_best_list' = << >>
                ELSE /\ error' = "none"
                     /\ n_best_list' = nbl
    /\ UNCHANGED <<tsCfg, scores, all_scores, bookkeep, eos_top, eos_top_ts,
                   n_best_counter, partial_hyps, cbsVars, ret>>

\* ===================================================== constrained decoding
\* ConstraintState: the progress tracker the stepper relies on (ordered
\* representation, constraints of one token each).  tokens is the full list of
\* constraint tokens, state the number of them already generated.
ConstraintState(constraint_tokens, k) == [tokens |-> constraint_tokens, state |-> k]

CSBank(s) == s.state

CSFinished(s) == s.state = Len(s.tokens)

\* the legal constraint continuations, as the list the stepper iterates over
CSNextTokens(s) == IF CSFinished(s) THEN << >> ELSE << s.tokens[s.state + 1] >>

CSAdvance(s, token) ==
    IF ~CSFinished(s) /\ s.tokens[s.state + 1] = token
    THEN [s EXCEPT !.state = @ + 1]
    ELSE s

\* LexicallyConstrainedBeamSearch.init_constraints for a batch of one sentence;
\* an empty batch of constraints leaves the empty list
InitConstraints(batch_constraints, bs) ==
    IF batch_constraints = << >> THEN << >>
    ELSE << [b \in 0..(bs - 1) |-> ConstraintState(batch_constraints[1], 0)] >>

\* tensor.sort(descending=True) / tensor.sort(): the permutation of positions
SortDescending(keys, tb) == TopK(keys, Len(keys), tb)

SortAscending(keys, tb) == TopK([i \in DOMAIN keys |-> 0 - keys[i]], Len(keys), tb)

Permute(lst, perm) == [i \in 1..Len(perm) |-> lst[perm[i]]]

\* torch.masked_select on a 1-d tensor
RECURSIVE MaskedSelect(_, _)
MaskedSelect(lst, mask) ==
    IF lst = << >> THEN << >>
    ELSE (IF mask[1] THEN << lst[1] >> ELSE << >>) \o MaskedSelect(Tail(lst), Tail(mask))

Min(a, b) == IF a < b THEN a ELSE b

\* search.py line 335
MAX_SCORE == -100

\* search.py line 336: the composite (bank, score) sort key
SortKey(num_constraint_tokens, bank, score) ==
    Add((num_constraint_tokens - bank) * MAX_SCORE, score)

\* search.py lines 361-362: a candidate is kept when its (beam, token) code
\* differs from the code of the candidate before it (the last one for the first)
UniquesMask(cands, vocab_size) ==
    LET n == Len(cands)
        code(i) == cands[i].beam * (vocab_size + 1) + cands[i].index
    IN  [i \in 1..n |-> code(IF i = 1 THEN n ELSE i - 1) # code(i)]

\* search.py lines 369-373: position 0 is never popped
PopStates(states, mask) ==
    IF states = << >> THEN << >>
    ELSE << states[1] >> \o MaskedSelect(Tail(states), Tail(mask))

\* search.py lines 396-403: cur_bank_count, the position within the run of
\* equal banks that ends at i
RECURSIVE CurBankCount(_, _)
CurBankCount(banks, i) ==
    IF i = 1 \/ banks[i] # banks[i - 1] THEN 0 ELSE CurBankCount(banks, i - 1) + 1

\* search.py lines 394-404
Stripes(banks, num_constraint_tokens) ==
    [i \in 1..Len(banks) |->
        num_constraint_tokens - banks[i] + CurBankCount(banks, i) * (Len(banks) + 1)]

\* search.py lines 293-309: the candidates added from the constraints
RECURSIVE ConstraintCands(_, _, _, _)
ConstraintCands(beamno, last_beam, lprobs, cstates) ==
    IF beamno > last_beam THEN << >>
    ELSE LET next_tokens == CSNextTokens(cstates[beamno])
         IN  [i \in 1..Len(next_tokens) |->
                 [beam |-> beamno, index |-> next_tokens[i],
                  score |-> lprobs[beamno][next_tokens[i]]]]
             \o ConstraintCands(beamno + 1, last_beam, lprobs, cstates)

\* candidates that keep the constraint state of the beam they extend
AdvancedStatesStale(cands, cstates) ==
    [i \in 1..Len(cands) |-> cstates[cands[i].beam]]

\* search.py lines 311-327: the state each candidate leads to
AdvancedStates(cands, cstates) ==
    [i \in 1..Len(cands) |-> CSAdvance(cstates[cands[i].beam], cands[i].index)]

\* the candidates with the bank of their state (banks tensor, line 327)
WithBanks(cands, states) ==
    [i \in 1..Len(cands) |->
        [beam |-> cands[i].beam, index |-> cands[i].index, score |-> cands[i].score,
         bank |-> CSBank(states[i])]]

\* the parallel buffers step_sentence works on: the candidates and the list of
\* constraint states
Ranking(cands, states) == [cands |-> WithBanks(cands, states), states |-> states]

\* a STEP 4 that leaves the candidates in the order they were collected
SortRankingNone(r, num_constraint_tokens, tb_sort) == r

\* search.py lines 329-344, STEP 4: sort by the composite key
SortRanking(r, num_constraint_tokens, tb_sort) ==
    LET sort_indices ==
            SortDescending([i \in 1..Len(r.cands) |->
                              SortKey(num_constraint_tokens, r.cands[i].bank,
                                      r.cands[i].score)], tb_sort)
    IN  [cands |-> Permute(r.cands, sort_indices),
         states |-> Permute(r.states, sort_indices)]

\* search.py lines 346-373, STEP 5: remove duplicates
RemoveDuplicates(r, vocab_size) ==
    LET uniques_mask == UniquesMask(r.cands, vocab_size)
    IN  [cands |-> MaskedSelect(r.cands, uniques_mask),
         states |-> PopStates(r.states, uniques_mask)]

\* search.py lines 375-412, STEP 6: interleave the banks
StripeRanking(r, num_constraint_tokens, tb_sort) ==
    LET stripe_indices ==
            SortAscending(Stripes([i \in 1..Len(r.cands) |-> r.cands[i].bank],
                                  num_constraint_tokens), tb_sort)
    IN  [cands |-> Permute(r.cands, stripe_indices),
         states |-> Permute(r.states, stripe_indices)]

\* search.py lines 414-418: truncate to num_cands and return; ranked is the
\* candidate list as STEP 4 left it
SentenceResult(ranked, uniq, striped, num_cands) ==
    IF uniq.cands = << >>
    THEN [error |-> "IndexError", cands |-> << >>, states |-> << >>,
          ranked |-> ranked.cands]
    ELSE [error |-> "none",
          cands |-> SubSeq(striped.cands, 1, Min(num_cands, Len(striped.cands))),
          states |-> striped.states,
          ranked |-> ranked.cands]

DedupAndStripe(ranked, uniq, nct, num_cands, tb_sort) ==
    SentenceResult(ranked, uniq, StripeRanking(uniq, nct, tb_sort), num_cands)

RankAndDedup(ranked, nct, num_cands, vocab_size, tb_sort) ==
    DedupAndStripe(ranked, RemoveDuplicates(ranked, vocab_size), nct, num_cands, tb_sort)

SortAndRank(all, cstates, nct, num_cands, vocab_size, tb_sort) ==
    RankAndDedup(SortRanking(Ranking(all, AdvancedStates(all, cstates)), nct, tb_sort),
                 nct, num_cands, vocab_size, tb_sort)

LastBeam(step, cstates) == IF step = 0 THEN 0 ELSE Cardinality(DOMAIN cstates) - 1

\* LexicallyConstrainedBeamSearch.step_sentence
StepSentence(step, lprobs, cstates, bufs, num_cands, vocab_size, tb_sort) ==
    SortAndRank(bufs \o ConstraintCands(0, LastBeam(step, cstates), lprobs, cstates),
                cstates, Len(cstates[LastBeam(step, cstates)].tokens),
                num_cands, vocab_size, tb_sort)

\* search.py lines 203-216: eos is suppressed for the unfinished hypotheses
SuppressEos(step, lprobs, cstates) ==
    IF cstates # << >> /\ step > 0
    THEN [b \in DOMAIN lprobs |->
            IF ~CSFinished(cstates[1][b])
            THEN [lprobs[b] EXCEPT ![eos] = NegInf]
            ELSE lprobs[b]]
    ELSE lprobs

\* search.py lines 218-225: the first beam only at step 0, cumulative scores
\* afterwards
StepLprobs(step, lprobs, scores_prev) ==
    IF step = 0
    THEN [b \in {0} |-> lprobs[0]]
    ELSE [b \in DOMAIN lprobs |-> [t \in Tokens |-> Add(lprobs[b][t], scores_prev[b])]]

\* lprobs.view(batch_size, -1)
Flatten(lprobs) ==
    [i \in 0..(Cardinality(DOMAIN lprobs) * VocabSize - 1) |->
        lprobs[i \div VocabSize][i % VocabSize]]

\* search.py lines 231-234: flat positions back to (beam, token)
CandsAt(flat, idxs) ==
    [i \in 1..Len(idxs) |->
        [beam |-> idxs[i] \div VocabSize, index |-> idxs[i] % VocabSize,
         score |-> flat[idxs[i]]]]

\* search.py lines 227-234: the overall top num_cands
TopCands(lprobs, num_cands, tb) ==
    CandsAt(Flatten(lprobs), TopK(Flatten(lprobs), num_cands, tb))

\* search.py lines 240-252, STEP 1: the top-1 of each hypothesis
EachTop(step, lprobs, tb) ==
    IF step > 0
    THEN [i \in 1..Cardinality(DOMAIN lprobs) |->
            [beam |-> i - 1, index |-> BestOf(lprobs[i - 1], Tokens, tb),
             score |-> lprobs[i - 1][BestOf(lprobs[i - 1], Tokens, tb)]]]
    ELSE << >>

\* search.py lines 254-273: the result of step_sentence stored in the
\* 2 * beam_size wide buffers
StoreSentence(sent, bs, cstates) ==
    IF sent.error # "none"
    THEN [error |-> sent.error, cands |-> << >>,
          constraint_states |-> cstates, ranked |-> sent.ranked]
    ELSE IF Len(sent.cands) # 2 * bs /\ Len(sent.cands) # 1
    THEN \* new_scores_buf[sentno] = scores with the wrong length
         [error |-> "RuntimeError", cands |-> << >>,
          constraint_states |-> cstates, ranked |-> sent.ranked]
    ELSE [error |-> "none",
          \* a result of length 1 is broadcast over the 2 * beam_size row
          cands |-> IF Len(sent.cands) = 2 * bs THEN sent.cands
                    ELSE [i \in 1..(2 * bs) |-> sent.cands[1]],
          constraint_states |-> << sent.states >>, ranked |-> sent.ranked]

\* a candidate count bounded by the vocabulary size instead of the width of
\* the flattened row
NumCandsVocab(bs, vocab_size) == Min(bs * 2, vocab_size - 1)

\* search.py lines 196-201
NumCands(bs, vocab_size) == Min(bs * 2, bs * vocab_size - 1)

\* step on the (cumulative) lprobs of search.py line 225
StepOn(step, lprobs, bs, cstates, tb, tb_sort) ==
    IF NumCands(bs, VocabSize) > Cardinality(DOMAIN lprobs) * VocabSize
    THEN \* torch.topk with k out of range
         [error |-> "RuntimeError", cands |-> << >>,
          constraint_states |-> cstates, ranked |-> << >>]
    ELSE IF cstates = << >>
    THEN [error |-> "none", cands |-> TopCands(lprobs, NumCands(bs, VocabSize), tb),
          constraint_states |-> cstates, ranked |-> << >>]
    ELSE StoreSentence(
             StepSentence(step, lprobs, cstates[1],
                          TopCands(lprobs, NumCands(bs, VocabSize), tb)
                              \o EachTop(step, lprobs, tb),
                          NumCands(bs, VocabSize), VocabSize, tb_sort),
             bs, cstates)

\* LexicallyConstrainedBeamSearch.step for one sentence.  scores_prev[b] is
\* scores[0, b, step - 1], the cumulative score of beam b.
Step(step, lprobs_in, scores_prev, cstates, tb, tb_sort) ==
    StepOn(step, StepLprobs(step, SuppressEos(step, lprobs_in, cstates), scores_prev),
           Cardinality(DOMAIN lprobs_in), cstates, tb, tb_sort)

\* ------------------------------------------------- ConstrainedBeamSearch
\* line 1748
max_len == 127

\* ConstrainedBeamSearch.__init__ (bsz = 1) followed by init_constraints
CBSInit(bs, batch_constraints) ==
    /\ cbs_scores = [b \in 0..(bs - 1) |-> << >>]
    /\ tokens = [b \in 0..(bs - 1) |-> << bos >>]
    /\ cands_to_ignore = [j \in 1..bs |-> FALSE]
    /\ cbs_finalized = << >>
    /\ cbs_finished = FALSE
    /\ num_remaining_sent = 1
    /\ constraint_states = InitConstraints(batch_constraints, bs)
    /\ finalized_from = << >>

\* float subtraction on the integer encoding
Sub(a, b) ==
    IF a = NegInf /\ b = NegInf THEN NaN
    ELSE IF a = NegInf THEN NegInf
    ELSE IF b = NegInf THEN PosInf
    ELSE a - b

\* ConstrainedBeamSearch.is_finished
IsFinished(step, finalized_sent_len, bs) ==
    finalized_sent_len = bs \/ step = max_len

\* a hypothesis that keeps column 0 of the token buffer
HypoWithStart(step, eos_cand, scores_buf) ==
    [tokens |-> SubSeq(tokens[eos_cand.beam], 1, step + 1) \o << eos >>,
     score |-> [num |-> eos_cand.score, den |-> step + 1],
     positional_scores |-> [c \in 1..(step + 1) |-> eos_cand.score]]

\* lines 1975-1993: the hypothesis of one finished candidate
Hypo(step, eos_cand, scores_buf) ==
    [tokens |-> SubSeq(tokens[eos_cand.beam], 2, step + 1) \o << eos >>,
     score |-> [num |-> eos_cand.score, den |-> step + 1],
     positional_scores |->
        [c \in 1..(step + 1) |->
            IF c = 1 THEN (IF step = 0 THEN eos_cand.score
                           ELSE scores_buf[eos_cand.beam][1])
            ELSE Sub(IF c = step + 1 THEN eos_cand.score
                     ELSE scores_buf[eos_cand.beam][c],
                     scores_buf[eos_cand.beam][c - 1])]]

\* a loop that appends a hypothesis for every finished candidate
RECURSIVE FinalizeLoopAll(_, _, _, _, _)
FinalizeLoopAll(i, eos_cands, step, scores_buf, finalized) ==
    IF i > Len(eos_cands) THEN finalized
    ELSE FinalizeLoopAll(i + 1, eos_cands, step, scores_buf,
                         Append(finalized, Hypo(step, eos_cands[i], scores_buf)))

\* lines 2019-2054: the hypotheses appended for the finished candidates, at
\* most beam_size in all
RECURSIVE FinalizeLoop(_, _, _, _, _)
FinalizeLoop(i, eos_cands, step, scores_buf, finalized) ==
    IF i > Len(eos_cands) THEN finalized
    ELSE FinalizeLoop(i + 1, eos_cands, step, scores_buf,
                      IF Len(finalized) < beam_size
                      THEN Append(finalized, Hypo(step, eos_cands[i], scores_buf))
                      ELSE finalized)

\* the source-slot constraint states of the hypotheses FinalizeLoop appends
RECURSIVE FinalizedFromLoop(_, _, _)
FinalizedFromLoop(i, eos_cands, from) ==
    IF i > Len(eos_cands) THEN from
    ELSE FinalizedFromLoop(i + 1, eos_cands,
            IF Len(from) < beam_size /\ constraint_states # << >>
            THEN Append(from, constraint_states[1][eos_cands[i].beam])
            ELSE from)

\* lines 2056-2069: the sentence is newly finished
FinishedAfter(step, finalized) ==
    [finalized |-> finalized,
     finished |-> IsFinished(step, Len(finalized), beam_size),
     remaining |-> IF IsFinished(step, Len(finalized), beam_size)
                   THEN num_remaining_sent - 1 ELSE num_remaining_sent]

\* lines 1857-1876: finalize_hypos on the eos candidates and the count of
\* sentences left
FinalizeHypos(step, eos_cands, scores_buf) ==
    IF eos_cands = << >>
    THEN [error |-> "none", finalized |-> cbs_finalized,
          finalized_from |-> finalized_from, finished |-> cbs_finished,
          remaining |-> num_remaining_sent]
    ELSE IF cbs_finished
    THEN \* cum_unfin[unfin_idx] on the empty list
         [error |-> "IndexError", finalized |-> cbs_finalized,
          finalized_from |-> finalized_from, finished |-> cbs_finished,
          remaining |-> num_remaining_sent]
    ELSE [error |-> "none", finalized_from |-> FinalizedFromLoop(1, eos_cands, finalized_from)]
         @@ FinishedAfter(step, FinalizeLoop(1, eos_cands, step, scores_buf, cbs_finalized))

\* lines 1846-1847: eos candidates with a finite score, not ignored
EosMask(cand) ==
    [i \in 1..Len(cand) |->
        /\ cand[i].index = eos
        /\ cand[i].score # NegInf
        /\ ~(i <= beam_size /\ cands_to_ignore[i])]

\* lines 1852-1860: the eos candidates among the top beam_size
EosCands(cand) ==
    MaskedSelect(SubSeq(cand, 1, beam_size), SubSeq(EosMask(cand), 1, beam_size))

\* lines 1889-1893
ActiveMask(cand) ==
    [i \in 1..Len(cand) |->
        (IF EosMask(cand)[i] \/ (i <= beam_size /\ cands_to_ignore[i])
         THEN 2 * beam_size ELSE 0) + (i - 1)]

\* lines 1900-1902: the beam_size smallest entries of active_mask
ActiveHypos(active_mask) == SubSeq(SortAscending(active_mask, "lo"), 1, beam_size)

\* a select_paths without the max-length assertion
StepBelowMaxLenNone(step) == TRUE

\* line 1885: assert step < self.max_len
StepBelowMaxLen(step) == step < max_len

\* lines 1878-1949: the asserts, the new buffers and the returned paths
SelectResult(step, cand, scores_buf, fin, active_mask, active_hypos) ==
    [error |-> IF fin.error # "none" THEN fin.error
               ELSE IF fin.remaining < 0 \/ ~StepBelowMaxLen(step) THEN "AssertionError"
               ELSE IF \A j \in 1..beam_size : active_mask[active_hypos[j]] >= 2 * beam_size
               THEN "AssertionError"
               ELSE "none",
     finalized |-> fin.finalized,
     finalized_from |-> fin.finalized_from,
     finished |-> fin.finished,
     remaining |-> fin.remaining,
     cands_to_ignore |-> [j \in 1..beam_size |-> active_mask[active_hypos[j]] >= 2 * beam_size],
     tokens |-> [b \in Slots |->
                   Append(SubSeq(tokens[cand[active_hypos[b + 1]].beam], 1, step + 1),
                          cand[active_hypos[b + 1]].index)],
     cbs_scores |-> [b \in Slots |->
                       Append(SubSeq(scores_buf[cand[active_hypos[b + 1]].beam], 1, step),
                              cand[active_hypos[b + 1]].score)],
     active_hypos |-> active_hypos,
     hyp_ids |-> [b \in Slots |-> cand[active_hypos[b + 1]].beam],
     tok_ids |-> [b \in Slots |-> cand[active_hypos[b + 1]].index],
     scores |-> [b \in Slots |-> cand[active_hypos[b + 1]].score]]

\* ConstrainedBeamSearch.select_paths, from the stepper's candidates on
\* (lines 1839-1949); scores_buf is self.cbs_scores as select_paths finds it
SelectAfterStep(step, cand, scores_buf) ==
    SelectResult(step, cand, scores_buf,
                 FinalizeHypos(step, EosCands(cand), scores_buf),
                 ActiveMask(cand), ActiveHypos(ActiveMask(cand)))

\* ConstrainedBeamSearch.is_done
IsDoneCBS == num_remaining_sent = 0

\* self.scores is a view of column step - 1 of self.cbs_scores, so the eos
\* penalty of advance (lines 1439-1441) is written into the buffer
PenalizedBuffer ==
    IF scores = None THEN cbs_scores
    ELSE [b \in Slots |->
            IF Last(outputs)[b] = eos
            THEN [cbs_scores[b] EXCEPT ![Len(cbs_scores[b])] = NegInf]
            ELSE cbs_scores[b]]

\* self.cbs_scores[:, :, step - 1] (line 1829 and search.py line 225)
ScoresPrev(step, scores_buf) ==
    [b \in Slots |-> IF step = 0 THEN 0 ELSE scores_buf[b][step]]

\* outputs[t] (t >= 1) is a view of column t of self.tokens, which later steps
\* reorder in place (lines 1926-1928)
OutputsView(new_tokens, step) ==
    << outputs[1] >> \o
    [t \in 1..(step + 1) |-> [b \in Slots |-> new_tokens[b][t + 1]]]

\* an exception inside select_paths: advance has written the eos penalty and
\* what select_paths stored before it raised
RaiseInSelect(err, scores_buf, fin, new_states) ==
    /\ error' = err
    /\ phase' = "raised"
    /\ scores' = PriorScores
    /\ cbs_scores' = scores_buf
    /\ cbs_finalized' = fin.finalized
    /\ finalized_from' = fin.finalized_from
    /\ cbs_finished' = fin.finished
    /\ num_remaining_sent' = fin.remaining
    /\ constraint_states' = new_states
    /\ UNCHANGED <<all_scores, bookkeep, outputs, finished, eos_top,
                   eos_top_ts, n_best_counter, partial_hyps, tokens,
                   cands_to_ignore>>

\* lines 1458-1490 after a constrained select_paths returned
RecordCBS(step, res, sel, scores_buf) ==
    IF sel.error # "none"
    THEN RaiseInSelect(sel.error, scores_buf, sel, res.constraint_states)
    ELSE /\ Record(sel)
         /\ outputs' = OutputsView(sel.tokens, step)
         /\ tokens' = sel.tokens
         /\ cbs_scores' = sel.cbs_scores
         /\ cands_to_ignore' = sel.cands_to_ignore
         /\ cbs_finalized' = sel.finalized
         /\ finalized_from' = sel.finalized_from
         /\ cbs_finished' = sel.finished
         /\ num_remaining_sent' = sel.remaining
         \* update_constraints (search.py lines 149-155)
         /\ constraint_states' =
               IF res.constraint_states = << >> THEN << >>
               ELSE << [b \in Slots |->
                          res.constraint_states[1][sel.active_hypos[b + 1]]] >>
         /\ UNCHANGED <<error, phase>>

\* ConstrainedBeamSearch.select_paths and the rest of advance
SelectPathsCBS(step, res, scores_buf) ==
    IF res.error # "none"
    THEN RaiseInSelect(res.error, scores_buf,
                       [finalized |-> cbs_finalized, finalized_from |-> finalized_from,
                        finished |-> cbs_finished, remaining |-> num_remaining_sent],
                       constraint_states)
    ELSE RecordCBS(step, res, SelectAfterStep(step, res.cands, scores_buf), scores_buf)

\* one timestep of the decode loop on a constrained machine (lines 1176-1178):
\* TreeSearch.advance with ConstrainedBeamSearch.select_paths
AdvanceCBS ==
    /\ phase = "decoding"
    /\ ~IsDoneCBS
    /\ Len(all_scores) - 1 < MaxCbsSteps
    /\ \E logprobs \in LogProbs, tb \in TieBreaks, tb_sort \in TieBreaks :
         SelectPathsCBS(Len(all_scores) - 1,
                        Step(Len(all_scores) - 1, MaskedLogprobs(logprobs),
                             ScoresPrev(Len(all_scores) - 1, PenalizedBuffer),
                             constraint_states, tb, tb_sort),
                        PenalizedBuffer)
    /\ UNCHANGED <<tsCfg, n_best_list, fnVars>>

\* ------------------------------------------------------------ specification
vars == <<tsVars, cbsVars, fnVars>>

\* a plain TreeSearch owns no constrained buffers
NoCBS ==
    /\ cbs_scores = << >>
    /\ tokens = << >>
    /\ cands_to_ignore = << >>
    /\ cbs_finalized = << >>
    /\ cbs_finished = FALSE
    /\ num_remaining_sent = 0
    /\ constraint_states = << >>
    /\ finalized_from = << >>

NoCall == call = None /\ ret = None

\* the configurations explored: beam width, minimum length, self n-gram
\* block size (-1: off, the constructor's default) and length penalty
TSConfigs ==
    {<<bs, 0, -1, 1>> : bs \in BeamSizes} \cup
    {<<bs, 2, -1, 0>> : bs \in BeamSizes} \cup
    {<<bs, 0, 2, 1>> : bs \in BeamSizes}

\* --- a BeamSearch driven by advance and get_rescored_finished
Init ==
    /\ \E c \in TSConfigs : TSInit(c[1], c[2], c[3], -1, c[4], None, None)
    /\ NoCBS
    /\ NoCall

Next == Advance \/ GetRescoredFinished

Spec == Init /\ [][Next]_vars

\* --- BeamSearch.select_paths called directly on bounded inputs
BeamLp == {NegInf, -2, -1}
BeamPrior == {NegInf, -3, 0}

InitBeam ==
    /\ \E bs \in BeamSizes : TSInit(bs, 0, -1, -1, 0, None, None)
    /\ NoCBS
    /\ ret = None
    /\ \E rows \in {{0}, Slots} :
       \E logprobs \in [rows -> [Tokens -> BeamLp]],
          prior_scores \in [rows -> BeamPrior], tb \in TieBreaks :
            call = Some([logprobs |-> logprobs, prior_scores |-> prior_scores, tb |-> tb])

SelectPathsCall ==
    /\ call # None /\ ret = None
    /\ ret' = Some(BeamSelect(Get(call).logprobs, Get(call).prior_scores, beam_size,
                              Get(call).tb))
    /\ UNCHANGED <<tsVars, cbsVars, call>>

NextBeam == SelectPathsCall

SpecBeam == InitBeam /\ [][NextBeam]_vars

\* --- NucleusSampling.select_paths (p = 1/2) called directly on bounded
\* inputs: rows whose entries weigh 4, 1 or 0
NucleusLp == {NegInf, -3, -1}

InitNucleus ==
    /\ \E bs \in BeamSizes :
         /\ TSFields(bs, 0, -1, -1, 0, None, None)
         /\ policy = Policy("nucleus", 0, 0)
         /\ error = "none" /\ phase = "decoding"
    /\ NoCBS
    /\ ret = None
    /\ \E logprobs \in [Slots -> {r \in [Tokens -> NucleusLp] : r[pad] = NegInf}],
          prior_scores \in {[h \in {0} |-> 0]} \cup [Slots -> {-1}], tb \in TieBreaks :
            call = Some([logprobs |-> logprobs, prior_scores |-> prior_scores, tb |-> tb])

NucleusCall ==
    /\ call # None /\ ret = None
    /\ \E sel \in SelectPaths(Get(call).logprobs, Get(call).prior_scores, 0, Get(call).tb) :
          ret' = Some(sel)
    /\ UNCHANGED <<tsVars, cbsVars, call>>

SpecNucleus == InitNucleus /\ [][NucleusCall]_vars

\* --- LexicallyConstrainedBeamSearch.step called directly on bounded inputs
StepLp == {NegInf, -150, -1}
StepPrior == {-2, -1}

\* the constraint sets of a batch of one sentence: no constraints declared at
\* all, a sentence without constraints, a sentence with one constraint token
ConstraintBatches == {<< >>, << << >> >>, << << 3 >> >>}

\* the constraint states a sentence can hold at a step
StepStates(batch_constraints, step) ==
    IF batch_constraints = << >> THEN {<< >>}
    ELSE {<< st >> : st \in
            [Slots -> {ConstraintState(batch_constraints[1], k) :
                         k \in 0..(IF step = 0 THEN 0 ELSE Len(batch_constraints[1]))}]}

InitStep ==
    /\ \E bs \in BeamSizes : TSInit(bs, 0, -1, -1, 0, None, None)
    /\ cbs_scores = << >>
    /\ tokens = << >>
    /\ cands_to_ignore = << >>
    /\ cbs_finalized = << >>
    /\ cbs_finished = FALSE
    /\ num_remaining_sent = 1
    /\ finalized_from = << >>
    /\ ret = None
    /\ \E step \in {0, 1}, batch_constraints \in ConstraintBatches :
       \E lprobs \in [Slots -> {r \in [Tokens -> StepLp] : r[pad] = NegInf}],
          scores_prev \in [Slots -> StepPrior],
          tb \in TieBreaks, tb_sort \in TieBreaks :
            /\ constraint_states \in StepStates(batch_constraints, step)
            /\ step = 0 => \A b \in Slots : scores_prev[b] = -1 /\ lprobs[b] = lprobs[0]
            /\ call = Some([step |-> step, lprobs |-> lprobs, scores_prev |-> scores_prev,
                            cstates |-> constraint_states,
                            tb |-> tb, tb_sort |-> tb_sort])

StepCall ==
    /\ call # None /\ ret = None
    /\ LET c == Get(call)
           res == Step(c.step, c.lprobs, c.scores_prev, c.cstates, c.tb, c.tb_sort)
       IN  /\ ret' = Some(res)
           /\ constraint_states' = res.constraint_states
    /\ UNCHANGED <<tsVars, cbs_scores, tokens, cands_to_ignore, cbs_finalized,
                   cbs_finished, num_remaining_sent, finalized_from, call>>

NextStep == StepCall

SpecStep == InitStep /\ [][NextStep]_vars

\* --- a ConstrainedBeamSearch driven by the decode loop
CBSConfigs == BeamSizes \X {0, 1} \X ConstraintBatches

InitCBS ==
    /\ \E c \in CBSConfigs :
         /\ TSInit(c[1], c[2], -1, -1, 0, None, None)
         /\ CBSInit(c[1], c[3])
    /\ NoCall

NextCBS == AdvanceCBS

SpecCBS == InitCBS /\ [][NextCBS]_vars

\* --- the decode loop of _generate on a BeamSearch (lines 1145-1178 and
\* 1212): advance while the machine is not done, with log-probabilities of two
\* sizes, then get_rescored_finished
GenLp == {-3, -1}

GenRows ==
    {r \in [Tokens -> GenLp \cup {NegInf}] :
        r[pad] = NegInf /\ r[bos] = NegInf /\ r[eos] # NegInf /\ r[3] # NegInf}

GenConfigs == BeamSizes \X {0, 1} \X {0, 1}

\* the tensors of one timestep: before the first token is chosen every beam
\* slot holds the same prefix and the model scores them alike
GenLogProbs ==
    IF scores = None THEN {[b \in Slots |-> r] : r \in GenRows}
    ELSE [Slots -> GenRows]

\* advance called with the tensor of one timestep by a caller that goes on
\* decoding whether or not the machine is done
AdvanceOn ==
    /\ phase = "decoding"
    /\ Len(all_scores) - 1 < MaxSteps
    /\ \E logprobs \in GenLogProbs, tb \in TieBreaks :
         /\ AdvanceWith(logprobs, tb)
         /\ call' = Some([fed |-> Append(Fed, logprobs)])
    /\ UNCHANGED <<tsCfg, n_best_list, cbsVars, ret>>

\* the loop body without the "if not b.is_done()" test of line 1176
AdvanceGenDone == AdvanceOn

\* one timestep of the loop of _generate (lines 1145-1201) as one sentence's
\* machine sees it: the loop runs max_ts = MaxSteps timesteps at most, stops
\* when every machine is done and skips the machines that are done
AdvanceGen ==
    /\ phase = "decoding"
    /\ ~IsDone
    /\ Len(all_scores) - 1 < MaxSteps
    /\ \E logprobs \in GenLogProbs, tb \in TieBreaks :
         /\ AdvanceWith(logprobs, tb)
         /\ call' = Some([fed |-> Append(Fed, logprobs)])
    /\ UNCHANGED <<tsCfg, n_best_list, cbsVars, ret>>

InitGen ==
    /\ \E c \in GenConfigs : TSInit(c[1], c[2], -1, -1, c[3], None, None)
    /\ NoCBS
    /\ NoCall

NextGen == AdvanceGen \/ GetRescoredFinished

SpecGen == InitGen /\ [][NextGen]_vars

\* --- a BeamSearch that is advanced past is_done, then asked for its n-best
\* list
NextOn == AdvanceOn \/ GetRescoredFinished

SpecOn == InitGen /\ [][NextOn]_vars

\* --- a BeamSearch of beam size 1 driven by the decode loop for up to
\* MaxDeepSteps timesteps; each row either goes on with token 3 (at 0.0 or -1)
\* or ends with eos
MaxDeepSteps == 9

DeepRow(tok, lp, other) ==
    [t \in Tokens |-> IF t = tok THEN lp
                      ELSE IF t \in {3, eos} THEN other ELSE NegInf]

DeepRows == {DeepRow(3, 0, NegInf), DeepRow(3, -1, -3),
             DeepRow(eos, -1, -3), DeepRow(eos, 0, NegInf)}

AdvanceDeep ==
    /\ phase = "decoding"
    /\ ~IsDone
    /\ Len(all_scores) - 1 < MaxDeepSteps
    /\ \E logprobs \in [Slots -> DeepRows], tb \in TieBreaks : AdvanceWith(logprobs, tb)
    /\ UNCHANGED <<tsCfg, n_best_list, cbsVars, fnVars>>

InitDeep ==
    /\ \E lenpen \in {0, 1} : TSInit(1, 0, -1, -1, lenpen, None, None)
    /\ NoCBS
    /\ NoCall

NextDeep == AdvanceDeep \/ GetRescoredFinished

SpecDeep == InitDeep /\ [][NextDeep]_vars

\* --- a BeamSearch with context n-gram blocking switched on: set_context
\* (lines 1334-1343) may or may not be called before an advance
CtxContexts == {<< 3 >>, << 3, 3 >>}

CtxConfigs == BeamSizes \X {1, 2}

SetContext ==
    /\ phase = "decoding"
    /\ context = None
    /\ \E ctx \in CtxContexts : context' = Some(ctx)
    /\ UNCHANGED <<beam_size, min_length, block_ngram, context_block_ngram, block_list,
                   length_penalty, policy, tsState, n_best_list, error, phase, cbsVars, fnVars>>

InitCtx ==
    /\ \E c \in CtxConfigs : TSInit(c[1], 0, -1, c[2], 0, None, None)
    /\ NoCBS
    /\ NoCall

NextCtx == Advance \/ SetContext

SpecCtx == InitCtx /\ [][NextCtx]_vars

\* --- a GreedySearch: construction with any beam size, then advance and
\* get_rescored_finished
GreedyConfigs == BeamSizes \X {0, 1} \X {0, 1}

InitGreedy ==
    /\ \E c \in GreedyConfigs : GreedyInit(c[1], c[2], -1, -1, c[3], None, None)
    /\ NoCBS
    /\ NoCall

NextGreedy == AdvanceGreedy \/ GetRescoredFinished

SpecGreedy == InitGreedy /\ [][NextGreedy]_vars

\* --- a TreeSearch of any of the five policies: Greedy (beam size 1), Beam,
\* TopKSampling (k = 2), NucleusSampling (p = 1/2), DelayedBeamSearch (k = 2,
\* delay = 1)
Policies == {Policy("greedy", 0, 0), Policy("beam", 0, 0), Policy("topk", 2, 0),
             Policy("nucleus", 0, 0), Policy("delayed", 2, 1)}

InitPolicies ==
    /\ \E bs \in BeamSizes, ml \in {0, 1}, pol \in Policies :
         /\ TSFields(bs, ml, -1, -1, 0, None, None)
         /\ policy = pol
         /\ IF pol.name = "greedy" THEN GreedyValidate(bs)
            ELSE error = "none" /\ phase = "decoding"
    /\ NoCBS
    /\ NoCall

NextPolicies == AdvancePolicy

SpecPolicies == InitPolicies /\ [][NextPolicies]_vars

\* --- a TreeSearch of any policy with a block list set (set_block_list, line
\* 1121): the phrases of a SearchBlocklist, of one, two and three tokens
BlockLists == {{<< 3 >>}, {<< 3, 3 >>, << 3, eos >>}, {<< bos, eos >>, << 3, bos, 3 >>}}

InitBlock ==
    /\ \E bs \in BeamSizes, pol \in Policies, bl \in BlockLists :
         /\ TSFields(bs, 0, -1, -1, 0, None, Some(bl))
         /\ policy = pol
         /\ IF pol.name = "greedy" THEN GreedyValidate(bs)
            ELSE error = "none" /\ phase = "decoding"
    /\ NoCBS
    /\ NoCall

SpecBlock == InitBlock /\ [][NextPolicies]_vars

\* --- a DelayedBeamSearch (k = 2) that switches to beam search at once, after
\* one step or after two steps
InitDelayed ==
    /\ \E bs \in BeamSizes, delay \in {0, 1, 2} :
         /\ TSFields(bs, 0, -1, -1, 0, None, None)
         /\ policy = Policy("delayed", 2, delay)
         /\ error = "none" /\ phase = "decoding"
    /\ NoCBS
    /\ NoCall

SpecDelayed == InitDelayed /\ [][NextPolicies]_vars

\* --- a ConstrainedBeamSearch driven by the decode loop up to the length of
\* its buffers (max_ts of _generate is the caller's; line 1145), with beam
\* size 1 so that the run stays linear in the number of steps.  The row handed
\* over has token 3 at -1, eos at -1 or -inf, the rest -inf.
LongRow(e) ==
    [t \in Tokens |-> IF t = 3 THEN -1 ELSE IF t = eos THEN e ELSE NegInf]

LongLogProbs == {[b \in Slots |-> LongRow(e)] : e \in LpVals}

AdvanceLong ==
    /\ phase = "decoding"
    /\ ~IsDoneCBS
    /\ Len(all_scores) - 1 <= max_len + 1
    /\ \E logprobs \in LongLogProbs, tb \in TieBreaks, tb_sort \in TieBreaks :
         SelectPathsCBS(Len(all_scores) - 1,
                        Step(Len(all_scores) - 1, MaskedLogprobs(logprobs),
                             ScoresPrev(Len(all_scores) - 1, PenalizedBuffer),
                             constraint_states, tb, tb_sort),
                        PenalizedBuffer)
    /\ UNCHANGED <<tsCfg, n_best_list, fnVars>>

InitLong ==
    /\ \E cons \in ConstraintBatches :
         /\ TSInit(1, 0, -1, -1, 0, None, None)
         /\ CBSInit(1, cons)
    /\ NoCall

NextLong == AdvanceLong

SpecLong == InitLong /\ [][NextLong]_vars

\* --- the stepper driven round after round the way advance and select_paths
\* drive it (lines 1434-1435, 1839-1843, 1887-1943 and 1463): step, the choice
\* of the active hypotheses, update_constraints, and the new scores appended to
\* the score history.  The stepper reads its step argument only in the tests
\* step == 0 / step > 0, and self.scores is None exactly before the first
\* step.  The rows are the ones advance hands over while the minimum length is
\* not reached (eos at -inf, line 1432), with the constraint token 3 finite;
\* 0 is a log-probability that rounds to 0.0 and -20 a small one.  A slot
\* that is given eos then has score -inf already, so the eos penalty of lines
\* 1437-1441 changes nothing.
MaxRounds == 4
RoundLp == {0, -20}

RoundRows ==
    {r \in [Tokens -> RoundLp \cup {NegInf}] :
        r[pad] = NegInf /\ r[eos] = NegInf /\ r[3] # NegInf}

RoundStep == IF scores = None THEN 0 ELSE 1

\* what one round leaves: the cumulative scores, the constraint states and the
\* ignore flags of the active hypotheses
RoundResult(res, active_mask, active_hypos) ==
    [scores |-> [b \in Slots |-> res.cands[active_hypos[b + 1]].score],
     constraint_states |->
        << [b \in Slots |-> res.constraint_states[1][active_hypos[b + 1]]] >>,
     cands_to_ignore |->
        [j \in 1..beam_size |-> active_mask[active_hypos[j]] >= 2 * beam_size]]

RoundAfterStep(res) ==
    RoundResult(res, ActiveMask(res.cands), ActiveHypos(ActiveMask(res.cands)))

RoundStore(res, new) ==
    IF res.error # "none"
    THEN /\ error' = res.error
         /\ phase' = "raised"
         /\ UNCHANGED <<scores, all_scores, constraint_states, cands_to_ignore>>
    ELSE /\ scores' = new.scores
         /\ all_scores' = Append(all_scores, new.scores)
         /\ constraint_states' = new.constraint_states
         /\ cands_to_ignore' = new.cands_to_ignore
         /\ UNCHANGED <<error, phase>>

RoundOn(res) == RoundStore(res, IF res.error # "none" THEN res ELSE RoundAfterStep(res))

StepRound ==
    /\ phase = "decoding"
    /\ Len(all_scores) - 1 < MaxRounds
    /\ \E lprobs \in [Slots -> RoundRows], tb \in TieBreaks, tb_sort \in TieBreaks :
         RoundOn(Step(RoundStep, lprobs,
                      IF scores = None THEN [b \in Slots |-> 0] ELSE scores,
                      constraint_states, tb, tb_sort))
    /\ UNCHANGED <<tsCfg, bookkeep, outputs, finished, eos_top, eos_top_ts,
                   n_best_counter, partial_hyps, n_best_list, cbs_scores, tokens,
                   cbs_finalized, cbs_finished, num_remaining_sent, finalized_from,
                   fnVars>>

InitRounds ==
    /\ \E bs \in BeamSizes :
         /\ TSInit(bs, 0, -1, -1, 0, None, None)
         /\ CBSInit(bs, << << 3 >> >>)
    /\ NoCall

NextRounds == StepRound

SpecRounds == InitRounds /\ [][NextRounds]_vars

\* ================================================================== claims
\* the (timestep, slot) pairs at which a slot holds eos with a score that is
\* not -inf
EosEmitted ==
    {p \in (1..(Len(outputs) - 1)) \X Slots :
        outputs[p[1] + 1][p[2]] = eos /\ all_scores[p[1] + 1][p[2]] # NegInf}

Recorded == {<<finished[k].timestep, finished[k].hypid>> : k \in 1..Len(finished)}

\* C1: after any advances, get_rescored_finished returns at least one
\* hypothesis and every returned token sequence holds eos exactly once: its
\* two postcondition assertions never fail.
C1_PostconditionsHold ==
    (phase = "rescored" /\ bookkeep # << >>) =>
        /\ error = "none"
        /\ Len(n_best_list) >= 1
        /\ \A i \in 1..Len(n_best_list) : CountEos(n_best_list[i].tokens) = 1

\* C2: Beam selection returns beam_size pairwise distinct (slot, token) pairs,
\* the score of each is prior[slot] + logprobs[slot][token], and no pair that
\* was not returned scores strictly higher than a returned one.
C2_BeamIsTopK ==
    ret # None =>
        LET c == Get(call)
            r == Get(ret)
            rows == DOMAIN c.prior_scores
            returned == {<<r.hyp_ids[s], r.tok_ids[s]>> : s \in 0..(beam_size - 1)}
        IN  /\ Cardinality(returned) = beam_size
            /\ returned \subseteq rows \X Tokens
            /\ \A s \in 0..(beam_size - 1) :
                  r.scores[s] = Add(c.logprobs[r.hyp_ids[s]][r.tok_ids[s]],
                                    c.prior_scores[r.hyp_ids[s]])
            /\ \A p \in (rows \X Tokens) \ returned : \A s \in 0..(beam_size - 1) :
                  Add(c.logprobs[p[1]][p[2]], c.prior_scores[p[1]]) <= r.scores[s]

C2_Witness ==
    /\ ret # None
    /\ beam_size = 2
    /\ Get(ret).hyp_ids[0] = 1
    /\ Get(ret).hyp_ids[1] = 0
    /\ Get(ret).scores[0] > Get(ret).scores[1]
    /\ Get(ret).scores[1] > NegInf

\* C3: while decoding, is_done() is true exactly when slot 0 holds eos at some
\* timestep so far and at least beam_size finished traces have been recorded.
C3_IsDoneIff ==
    phase # "rescored" =>
        (IsDone <=> /\ \E t \in 2..Len(outputs) : outputs[t][0] = eos
                    /\ Len(finished) >= beam_size)

C3_Witness ==
    /\ phase = "decoding"
    /\ IsDone
    /\ beam_size = 2
    /\ Len(finished) = 2

\* C4: before any forced finalization, the finished list holds exactly one
\* trace for every (timestep, slot) at which the slot holds eos with a score
\* that is not -inf, with the score of that timestep, and no other trace.
C4_FinishedExact ==
    phase = "decoding" =>
        /\ Recorded = EosEmitted
        /\ Cardinality(Recorded) = Len(finished)
        /\ \A k \in 1..Len(finished) :
              /\ finished[k].tokenid = eos
              /\ finished[k].score = all_scores[finished[k].timestep + 1][finished[k].hypid]

C4_Witness ==
    /\ phase = "decoding"
    /\ Len(finished) >= 2
    /\ \E p \in (1..(Len(outputs) - 1)) \X Slots :
          outputs[p[1] + 1][p[2]] = eos /\ all_scores[p[1] + 1][p[2]] = NegInf

\* C5: with block_ngram = n > 0 every token that would complete an n-gram of a
\* slot's own partial hypothesis is -inf for that slot before selection, and no
\* slot with a finite cumulative score holds a partial hypothesis in which an
\* n-gram occurs twice.
C5_NoRepeatedNgram ==
    (phase = "decoding" /\ block_ngram > 0) =>
        \A h \in Slots :
            LET hyp == partial_hyps[h]
                n == block_ngram
                masked == MaskedLogprobs([b \in Slots |-> [t \in Tokens |-> -1]])
            IN  /\ \A t \in Tokens :
                      (Len(hyp) >= n - 1
                       /\ Append(SubSeq(hyp, Len(hyp) - n + 2, Len(hyp)), t)
                              \in FindNgrams(hyp, n))
                      => masked[h][t] = NegInf
                /\ (Last(all_scores)[h] # NegInf /\ Len(hyp) >= n)
                      => Cardinality(FindNgrams(hyp, n)) = Len(hyp) - n + 1

C5_Witness ==
    /\ phase = "decoding"
    /\ block_ngram = 2
    /\ \E h \in Slots :
          /\ Last(all_scores)[h] # NegInf
          /\ Len(partial_hyps[h]) = 4
          /\ partial_hyps[h][3] = partial_hyps[h][1]

\* C6 as stated: at an advance whose current length is below min_length no
\* slot is assigned eos by the selection.
C6_NoEosBeforeMinLength ==
    phase = "decoding" =>
        \A t \in 1..(Len(outputs) - 1) :
            (t - 1 < min_length) => \A h \in Slots : outputs[t + 1][h] # eos

\* C6 amended: at an advance whose current length is below min_length eos is
\* -inf on every row before selection; a slot the selection still assigns eos
\* has cumulative score -inf, and no finished trace is recorded at that step.
C6_EosOnlyDeadBeforeMinLength ==
    phase = "decoding" =>
        /\ (Len(all_scores) - 1 < min_length) =>
              \A h \in Slots :
                  MaskedLogprobs([b \in Slots |-> [t \in Tokens |-> -1]])[h][eos] = NegInf
        /\ \A t \in 1..(Len(outputs) - 1) :
              (t - 1 < min_length) =>
                  \A h \in Slots : outputs[t + 1][h] = eos => all_scores[t + 1][h] = NegInf
        /\ \A k \in 1..Len(finished) : finished[k].timestep > min_length

C6_Witness ==
    /\ phase = "decoding"
    /\ min_length = 2
    /\ Len(outputs) = 4
    /\ \E h \in Slots : outputs[2][h] = eos
    /\ Len(finished) >= 1

\* the cumulative score of the extension of beam b by token t in a direct
\* call of step
StepScore(b, t) ==
    IF Get(call).step = 0 THEN Get(call).lprobs[0][t]
    ELSE Add(Get(call).lprobs[b][t], Get(call).scores_prev[b])

StepRows == IF Get(call).step = 0 THEN {0} ELSE Slots

\* C7: in the ranking of one constrained step a candidate of a higher bank
\* precedes every candidate of a lower bank, whatever the scores, and
\* candidates of equal bank are in descending score order.
C7_BankBeforeScore ==
    ret # None =>
        LET r == Get(ret).ranked
        IN  \A i \in 1..Len(r) : \A j \in (i + 1)..Len(r) :
                \/ r[i].bank > r[j].bank
                \/ r[i].bank = r[j].bank /\ r[i].score >= r[j].score

\* C8: the candidates one constrained step returns for a sentence are pairwise
\* distinct in (beam, token), and the constraint state at each position is
\* the state of that position's candidate.
C8_NoDuplicateCandidates ==
    (ret # None /\ Get(call).cstates # << >>) =>
        LET r == Get(ret)
        IN  /\ r.error = "none"
            /\ \A i \in 1..Len(r.cands) : \A j \in (i + 1)..Len(r.cands) :
                  <<r.cands[i].beam, r.cands[i].index>> # <<r.cands[j].beam, r.cands[j].index>>
            /\ \A i \in 1..Len(r.cands) :
                  r.constraint_states[1][i] =
                      CSAdvance(Get(call).cstates[1][r.cands[i].beam], r.cands[i].index)

\* C9: in constrained decoding no hypothesis is finalized from a beam slot
\* whose constraint state is not finished.
C9_FinalizedOnlyWhenConstraintsMet ==
    \A k \in 1..Len(finalized_from) : CSFinished(finalized_from[k])

\* C10: for a sentence without constraints a constrained step returns what
\* plain Beam selection over the same scores returns: distinct (beam, token)
\* pairs with their cumulative scores, in descending score order, none of the
\* pairs left out scoring strictly higher than a returned one.
C10_NoConstraintsIsBeam ==
    (ret # None /\ (Get(call).cstates = << >> \/ Get(call).cstates[1][0].tokens = << >>)) =>
        LET r == Get(ret)
            returned == {<<r.cands[i].beam, r.cands[i].index>> : i \in 1..Len(r.cands)}
        IN  /\ r.error = "none"
            /\ Len(r.cands) = NumCands(beam_size, VocabSize)
            /\ Cardinality(returned) = Len(r.cands)
            /\ returned \subseteq StepRows \X Tokens
            /\ \A i \in 1..Len(r.cands) :
                  r.cands[i].score = StepScore(r.cands[i].beam, r.cands[i].index)
            /\ \A i \in 1..(Len(r.cands) - 1) : r.cands[i].score >= r.cands[i + 1].score
            /\ \A p \in (StepRows \X Tokens) \ returned : \A i \in 1..Len(r.cands) :
                  StepScore(p[1], p[2]) <= r.cands[i].score

\* the surviving slots: the active hypotheses whose cumulative score is not -inf
Survivors == {b \in Slots : scores # None /\ scores[b] # NegInf}

AllBankOne ==
    /\ scores # None
    /\ \A b \in Survivors : CSBank(constraint_states[1][b]) = 1

LastStep == (IF phase = "raised" THEN Len(all_scores) ELSE Len(all_scores) - 1) - 1

\* C12: the constrained machine has marked its sentence finished, its count
\* of remaining sentences is 0 and is_done() is true exactly when the sentence
\* has beam_size finalized hypotheses or the last step was step max_len; the
\* count is 1 before that and never negative.
C12_FinishedWhenFullOrMaxLen ==
    /\ num_remaining_sent \in {0, 1}
    /\ IsDoneCBS <=> cbs_finished
    /\ cbs_finished <=> (Len(cbs_finalized) = beam_size \/ LastStep = max_len)


\* the hypothesis of the k-th finished trace and the number of times an entry
\* occurs in a list
FinishedHyp(k) ==
    [tokens |-> HypTokens(outputs, finished[k].timestep, finished[k].hypid),
     score |-> Rescore(finished[k])]

Occurrences(lst, v) == Cardinality({i \in 1..Len(lst) : lst[i] = v})

\* seq holds the tokens met from timestep 0 to timestep t on the path that
\* ends in slot h and goes from each slot to the slot its backpointer names
IsBackpointerWalk(seq, t, h) ==
    /\ Len(seq) = t + 1
    /\ \E path \in [0..t -> Slots] :
         /\ path[t] = h
         /\ \A i \in 1..t : path[i - 1] = bookkeep[i][path[i]]
         /\ \A i \in 0..t : seq[i + 1] = outputs[i + 1][path[i]]

\* C13: what get_rescored_finished(n) returns is in non-increasing order of
\* adjusted score, holds min(n, number of finished traces) hypotheses (all of
\* them without n), each the hypothesis of a finished trace with its tokens
\* read along the backpointers, and no finished hypothesis left out scores
\* strictly higher than a returned one.
C13_NBestSortedTopN ==
    (phase = "rescored" /\ error = "none") =>
        LET n == Get(call).n_best
            all == [k \in 1..Len(finished) |-> FinishedHyp(k)]
        IN  /\ \A i \in 1..(Len(n_best_list) - 1) :
                  ~RatGreater(n_best_list[i + 1].score, n_best_list[i].score)
            /\ Len(n_best_list) =
                  IF n = None THEN Len(finished) ELSE Min(Get(n), Len(finished))
            /\ \A i \in 1..Len(n_best_list) :
                  /\ Occurrences(n_best_list, n_best_list[i]) <= Occurrences(all, n_best_list[i])
                  /\ \E k \in 1..Len(finished) :
                        /\ n_best_list[i].score = Rescore(finished[k])
                        /\ IsBackpointerWalk(n_best_list[i].tokens,
                                             finished[k].timestep, finished[k].hypid)
            /\ \A k \in 1..Len(finished) :
                  (\E i \in 1..Len(n_best_list) : RatGreater(all[k].score, n_best_list[i].score))
                      => Occurrences(n_best_list, all[k]) = Occurrences(all, all[k])

\* two of three or more finished traces returned, the first scoring strictly
\* higher than the second, and the best one not the first that finished
C13_Witness ==
    /\ phase = "rescored" /\ error = "none"
    /\ Get(call).n_best = Some(2)
    /\ Len(finished) >= 3
    /\ Len(n_best_list) = 2
    /\ RatGreater(n_best_list[1].score, n_best_list[2].score)
    /\ RatGreater(n_best_list[1].score, Rescore(finished[1]))


\* x to the power e for the exponents the model knows
PowInt(x, e) == IF e = 0 THEN 1 ELSE x

\* C14: the adjusted score of a returned hypothesis is the raw score of its
\* finished trace divided by ((1 + length) / 6) ^ length_penalty, where length
\* is the number of tokens of the hypothesis; for length 5 the adjusted score
\* is the raw score, for length 10 and exponent 1 it is the raw score * 6 / 11.
C14_LengthPenalty ==
    (phase = "rescored" /\ error = "none") =>
        \A i \in 1..Len(n_best_list) :
            \E k \in 1..Len(finished) :
                LET length == Len(n_best_list[i].tokens)
                    raw == finished[k].score
                    adj == n_best_list[i].score
                IN  /\ IsBackpointerWalk(n_best_list[i].tokens,
                                         finished[k].timestep, finished[k].hypid)
                    /\ adj.den > 0
                    /\ IF raw = NegInf THEN adj.num = NegInf
                       ELSE /\ adj.num * PowInt(1 + length, length_penalty)
                                 = raw * PowInt(6, length_penalty) * adj.den
                            /\ length = 5 => adj.num = raw * adj.den
                            /\ (length = 10 /\ length_penalty = 1)
                                  => 11 * adj.num = 6 * raw * adj.den

\* a hypothesis of five tokens with raw score -2 rescored under exponent 1
C14_Witness ==
    /\ phase = "rescored" /\ error = "none"
    /\ length_penalty = 1
    /\ Len(n_best_list) = 1 /\ Len(finished) = 1
    /\ Len(n_best_list[1].tokens) = 5
    /\ finished[1].score = -2
    /\ n_best_list[1].score.num = -2 * n_best_list[1].score.den


\* C15: get_rescored_finished called after one or more advances that recorded
\* no finished trace (n_best_counter still 0) returns without error exactly one
\* hypothesis, the tokens on the backpointer path of slot 0 at the last
\* timestep, whose last token it has set to eos.
C15_ForcedHypothesisReturned ==
    (phase = "rescored" /\ bookkeep # << >> /\ n_best_counter = 0) =>
        /\ error = "none"
        /\ Last(outputs)[0] = eos
        /\ Len(n_best_list) = 1
        /\ IsBackpointerWalk(n_best_list[1].tokens, Len(outputs) - 1, 0)


\* C16: an advance on a machine with context_block_ngram > 0 and no context
\* set ends in a ValueError and leaves outputs, backpointers, the score
\* history and finished as they were.
C16_NoContextRaises ==
    [][(context_block_ngram > 0 /\ context = None /\ context' = context) =>
          /\ error' = "ValueError"
          /\ phase' = "raised"
          /\ UNCHANGED <<outputs, bookkeep, all_scores, finished>>]_vars

\* the first advance of such a machine has raised: it has written the prior
\* scores and appended nothing
C16_Witness ==
    /\ context_block_ngram > 0 /\ context = None
    /\ error = "ValueError"
    /\ scores # None
    /\ Len(outputs) = 1 /\ bookkeep = << >> /\ Len(all_scores) = 1 /\ finished = << >>


\* C17: a GreedySearch built with a beam size other than 1 has raised
\* ValueError in its constructor and never advances; built with beam size 1
\* it starts out ready to decode, and its advances never raise that error.
C17_GreedyNeedsBeamOne ==
    /\ beam_size # 1 =>
          /\ phase = "raised" /\ error = "ValueError"
          /\ scores = None /\ Len(outputs) = 1 /\ bookkeep = << >> /\ Len(all_scores) = 1
    /\ beam_size = 1 =>
          /\ error # "ValueError"
          /\ (scores = None /\ phase # "rescored") => (phase = "decoding" /\ error = "none")

C17_Witness ==
    /\ beam_size = 2
    /\ phase = "raised" /\ error = "ValueError"


\* the end-to-end case: beam size 2, min_length 1, two tensors fed, the first
\* with token 3 strictly highest in row 0, the second with eos strictly
\* highest in every row, then get_rescored_finished has returned
EndToEndCase ==
    /\ phase = "rescored" /\ error = "none"
    /\ beam_size = 2 /\ min_length = 1
    /\ Len(Fed) = 2
    /\ \A t \in Tokens \ {3} : Fed[1][0][3] > Fed[1][0][t]
    /\ \A h \in Slots : \A t \in Tokens \ {eos} : Fed[2][h][eos] > Fed[2][h][t]

\* the sum of the two chosen log-probabilities divided by
\* ((1 + length) / 6) ^ length_penalty equals the score adj
EndToEndScore(adj, length) ==
    /\ adj.den > 0
    /\ adj.num * PowInt(1 + length, length_penalty)
          = (Fed[1][0][3] + Fed[2][0][eos]) * PowInt(6, length_penalty) * adj.den

C20_HistoriesInStep ==
    /\ [](phase = "decoding" =>
            /\ Len(outputs) = Len(bookkeep) + 1
            /\ Len(outputs) = Len(all_scores))
    /\ [][phase' = "decoding" =>
            /\ Len(outputs') = Len(outputs) + 1
            /\ Len(bookkeep') = Len(bookkeep) + 1
            /\ Len(all_scores') = Len(all_scores) + 1]_vars

\* three advances have returned
C20_Witness ==
    /\ phase = "decoding"
    /\ Len(outputs) = 4 /\ Len(bookkeep) = 3 /\ Len(all_scores) = 4


\* C21: every backpointer recorded by an advance, under each of the five
\* policies, is a slot index in 0..beam_size-1.
C21_BackpointersInRange ==
    \A t \in 1..Len(bookkeep) :
        \A i \in DOMAIN bookkeep[t] : bookkeep[t][i] \in 0..(beam_size - 1)

\* a DelayedBeamSearch of beam size 2 after three advances: the sampled first
\* step keeps every slot on itself and a later beam step takes both slots from
\* slot 1
C21_Witness ==
    /\ beam_size = 2 /\ policy.name = "delayed"
    /\ Len(bookkeep) = 3
    /\ bookkeep[1][1] = 1
    /\ bookkeep[3][0] = 1 /\ bookkeep[3][1] = 1


\* C22: under each of the five policies, fed log-probabilities of beam_size
\* rows, the token array, the source-slot array and the score array that an
\* advance appends (the first advance included) have exactly beam_size
\* entries each.
C22_AppendedArraysBeamSize ==
    /\ Len(outputs) = Len(bookkeep) + 1
    /\ Len(all_scores) = Len(bookkeep) + 1
    /\ \A t \in 1..Len(bookkeep) :
          /\ DOMAIN outputs[t + 1] = 0..(beam_size - 1)
          /\ DOMAIN bookkeep[t] = 0..(beam_size - 1)
          /\ DOMAIN all_scores[t + 1] = 0..(beam_size - 1)

\* a NucleusSampling of beam size 2 after its first advance, whose prior
\* score had a single entry
C22_Witness ==
    /\ beam_size = 2 /\ policy.name = "nucleus"
    /\ Len(bookkeep) = 1
    /\ Cardinality(DOMAIN scores) = 2


\* C23: the decode loop never advances a machine whose is_done() is true (the
\* histories of a done machine stay as they are), and a sentence is advanced
\* max_ts times at most, so decoding ends.
C23_NoAdvanceAfterDone ==
    /\ [](Len(bookkeep) <= MaxSteps)
    /\ [][IsDone => /\ Len(bookkeep') = Len(bookkeep)
                    /\ UNCHANGED <<scores, all_scores, bookkeep, outputs, finished,
                                   partial_hyps, n_best_counter>>]_vars

\* a machine of beam size 2 that is done after fewer than max_ts advances and
\* whose n-best list was asked for afterwards
C23_Witness ==
    /\ IsDone /\ beam_size = 2
    /\ Len(bookkeep) < MaxSteps
    /\ n_best_list # None


\* is_done() as it was after t advances
DoneAt(t) ==
    /\ eos_top /\ Get(eos_top_ts) <= t
    /\ Cardinality({j \in 1..Len(finished) : finished[j].timestep <= t}) >= beam_size

\* C24 (for the advances the decode loop makes, those of a machine that is
\* not done): under Beam selection a slot whose last token is eos enters the next
\* advance with a prior score of -inf (whatever descends from it has score
\* -inf) and no slot of that advance has it as its source slot.
C24_EosSlotNeverSource ==
    policy.name = "beam" =>
        \A t \in 1..(Len(bookkeep) - 1) :
            ~DoneAt(t) =>
                \A h \in Slots :
                    outputs[t + 1][h] = eos =>
                        \A i \in Slots : bookkeep[t + 1][i] # h

\* the half of C24 that holds: whatever descends from a slot that ended in eos
\* has a cumulative score of -inf
C24_EosDescendantsDead ==
    policy.name = "beam" =>
        \A t \in 1..(Len(bookkeep) - 1) :
            \A i \in Slots :
                outputs[t + 1][bookkeep[t + 1][i]] = eos => all_scores[t + 2][i] = NegInf


\* the finished traces of slot 0 at the step where it first emitted eos (none
\* when that candidate had a score of -inf)
EosTopTails ==
    IF eos_top_ts = None THEN {}
    ELSE {j \in 1..Len(finished) :
            finished[j].timestep = Get(eos_top_ts) /\ finished[j].hypid = 0}

\* the finished traces of later steps
LaterTails ==
    IF eos_top_ts = None THEN {}
    ELSE {j \in 1..Len(finished) : finished[j].timestep > Get(eos_top_ts)}

\* C25 (as stated): once slot 0 has emitted eos, no hypothesis finished at a
\* later step ranks above it in the order of get_rescored_finished, so going
\* on decoding cannot change the top hypothesis.
C25_LaterRanksBelow ==
    \A e \in EosTopTails, f \in LaterTails :
        ~RatGreater(Rescore(finished[f]), Rescore(finished[e]))

\* C25 (amended): once slot 0 has emitted eos, no hypothesis finished at a
\* later step has a higher cumulative score; without a length penalty the
\* rescored order is the same.
C25_LaterScoresBelow ==
    \A e \in EosTopTails, f \in LaterTails :
        /\ finished[f].score <= finished[e].score
        /\ length_penalty = 0 => ~RatGreater(Rescore(finished[f]), Rescore(finished[e]))

\* a machine of beam size 2 that was done after its second advance, was
\* advanced again and finished one more hypothesis
C25_Witness ==
    /\ beam_size = 2 /\ Len(bookkeep) = 3 /\ DoneAt(2)
    /\ EosTopTails # {}
    /\ \E f \in LaterTails : finished[f].timestep = 3


\* the candidates of the last step as STEP 5 left them (ranked, duplicates
\* removed)
UniqueCands == MaskedSelect(Get(ret).ranked, UniquesMask(Get(ret).ranked, VocabSize))

\* the banks of the k-th candidates (k counted from 0) of each bank of lst,
\* from bank b down to bank 0
RECURSIVE BankRound(_, _, _)
BankRound(lst, k, b) ==
    IF b < 0 THEN << >>
    ELSE (IF Cardinality({i \in 1..Len(lst) : lst[i].bank = b}) > k
          THEN << b >> ELSE << >>) \o BankRound(lst, k, b - 1)

\* the banks of lst in round-robin order: round 0, then round 1, ...
RECURSIVE RoundRobinBanks(_, _, _)
RoundRobinBanks(lst, k, top) ==
    IF k >= Len(lst) THEN << >>
    ELSE BankRound(lst, k, top) \o RoundRobinBanks(lst, k + 1, top)

\* a constrained step through step_sentence that returned its candidates as
\* they are (more than one unique candidate)
StepRanked ==
    /\ ret # None
    /\ Get(ret).error = "none"
    /\ Get(ret).ranked # << >>
    /\ Len(UniqueCands) >= Len(Get(ret).cands)

\* C26: the candidates a constrained step returns come in round-robin order
\* over the banks of the ranked, deduplicated candidates: the best of each
\* bank from the highest bank down, then the second best of each bank, ...
C26_RoundRobinOverBanks ==
    StepRanked =>
        LET cands == Get(ret).cands
            top == Len(Get(call).cstates[1][0].tokens)
        IN  [i \in 1..Len(cands) |-> cands[i].bank]
              = SubSeq(RoundRobinBanks(UniqueCands, 0, top), 1, Len(cands))

\* the ranked candidates hold each bank in one run
BanksInRuns ==
    \A i, j, l \in 1..Len(Get(ret).ranked) :
        (i < j /\ j < l /\ Get(ret).ranked[i].bank = Get(ret).ranked[l].bank)
            => Get(ret).ranked[j].bank = Get(ret).ranked[i].bank

\* round-robin order whenever the ranking kept each bank in one run
C26_RoundRobinWhenRanked == (StepRanked /\ BanksInRuns) => C26_RoundRobinOverBanks


C28_StatesFollowSlots ==
    [][(constraint_states # << >> /\ Len(bookkeep') = Len(bookkeep) + 1) =>
          /\ Len(constraint_states') = 1
          /\ DOMAIN constraint_states'[1] = 0..(beam_size - 1)
          /\ \A i \in 0..(beam_size - 1) :
                constraint_states'[1][i] =
                    CSAdvance(constraint_states[1][bookkeep'[Len(bookkeep')][i]],
                              outputs'[Len(outputs')][i])]_vars


\* the candidates of the last step in the order they were collected: the
\* overall top-k, the top-1 of each hypothesis, the constraint tokens
Discovered ==
    LET c == Get(call)
        bs == Cardinality(DOMAIN c.lprobs)
        lp == StepLprobs(c.step, SuppressEos(c.step, c.lprobs, c.cstates), c.scores_prev)
    IN  TopCands(lp, NumCands(bs, VocabSize), c.tb) \o EachTop(c.step, lp, c.tb)
            \o ConstraintCands(0, LastBeam(c.step, c.cstates[1]), lp, c.cstates[1])

\* the first position of the candidate (beam, index) in lst
FirstPos(lst, cand) ==
    CHOOSE i \in 1..Len(lst) :
        /\ lst[i].beam = cand.beam /\ lst[i].index = cand.index
        /\ \A j \in 1..(i - 1) : ~(lst[j].beam = cand.beam /\ lst[j].index = cand.index)

\* C29 (as stated): two distinct candidates of equal bank and equal score are
\* ranked in the order in which they were collected.
C29_TiesInDiscoveryOrder ==
    StepRanked =>
        LET ranked == Get(ret).ranked
        IN  \A i, j \in 1..Len(ranked) :
                (/\ ranked[i].bank = ranked[j].bank /\ ranked[i].score = ranked[j].score
                 /\ FirstPos(Discovered, ranked[i]) < FirstPos(Discovered, ranked[j]))
                    => FirstPos(ranked, ranked[i]) < FirstPos(ranked, ranked[j])

\* ranked holds the candidates of disc, as many times each, in descending
\* order of the sort key
IsRankingOf(ranked, disc, nct) ==
    /\ Len(ranked) = Len(disc)
    /\ \A i \in 1..Len(disc) :
          Cardinality({j \in 1..Len(ranked) :
                          ranked[j].beam = disc[i].beam /\ ranked[j].index = disc[i].index})
            = Cardinality({j \in 1..Len(disc) :
                              disc[j].beam = disc[i].beam /\ disc[j].index = disc[i].index})
    /\ \A i \in 1..(Len(ranked) - 1) :
          Add((nct - ranked[i].bank) * MAX_SCORE, ranked[i].score)
            >= Add((nct - ranked[i + 1].bank) * MAX_SCORE, ranked[i + 1].score)

\* C29 (amended): the ranking holds the collected candidates in descending
\* order of the sort key; candidates of equal key come in either order.
C29_RankedByKey ==
    StepRanked =>
        IsRankingOf(Get(ret).ranked, Discovered, Len(Get(call).cstates[1][0].tokens))

\* a step whose ranking holds two distinct candidates of equal bank and score
\* in the reverse of the order in which they were collected
C29_Witness ==
    /\ StepRanked
    /\ \E i, j \in 1..Len(Get(ret).ranked) :
          /\ i < j
          /\ Get(ret).ranked[i].bank = Get(ret).ranked[j].bank
          /\ Get(ret).ranked[i].score = Get(ret).ranked[j].score
          /\ Get(ret).ranked[i].score # NegInf
          /\ FirstPos(Discovered, Get(ret).ranked[j]) < FirstPos(Discovered, Get(ret).ranked[i])


\* C30: a constrained advance never fails the assertion that some candidate
\* of the sentence is active, and every slot it leaves is an active candidate:
\* none is flagged as ignored and none holds eos with a finite score.
C30_SurvivorsAreActive ==
    /\ error # "AssertionError"
    /\ (phase = "decoding" /\ cbs_scores # << >> /\ bookkeep # << >>) =>
          \A b \in Slots :
              /\ ~cands_to_ignore[b + 1]
              /\ ~(Last(outputs)[b] = eos /\ Last(all_scores)[b] # NegInf)


\* C31: the finalized list of the sentence never holds more than beam_size
\* hypotheses, every hypothesis in it has a finite score and ends in eos, an
\* advance only appends to it, and a full list is left as it is.
C31_FinalizedAtMostBeamSize ==
    /\ [](/\ Len(cbs_finalized) <= beam_size
          /\ \A k \in 1..Len(cbs_finalized) :
                /\ cbs_finalized[k].score.num # NegInf
                /\ Last(cbs_finalized[k].tokens) = eos)
    /\ [][/\ Len(cbs_finalized') >= Len(cbs_finalized)
          /\ SubSeq(cbs_finalized', 1, Len(cbs_finalized)) = cbs_finalized
          /\ Len(cbs_finalized) = beam_size => cbs_finalized' = cbs_finalized]_vars

\* a sentence of beam size 2 whose list was filled at two different steps
C31_Witness ==
    /\ beam_size = 2 /\ Len(cbs_finalized) = 2
    /\ Len(cbs_finalized[1].tokens) = 1
    /\ Len(cbs_finalized[2].tokens) = 2

\* the number of positions of seq that hold the token tok
CountToken(seq, tok) == Cardinality({j \in 1..Len(seq) : seq[j] = tok})

\* C32: every finalized hypothesis has as many tokens as the step of its
\* finalization plus one, ends in eos and holds eos exactly once; a hypothesis
\* appended by an advance at step s starts with the s tokens that a slot held
\* after column 0 before the advance, and every advance gathers the token rows
\* of the surviving slots through the backpointers it records.
C32_FinalizedTokens ==
    /\ [](\A k \in 1..Len(cbs_finalized) :
             /\ Len(cbs_finalized[k].tokens) = cbs_finalized[k].score.den
             /\ Last(cbs_finalized[k].tokens) = eos
             /\ CountToken(cbs_finalized[k].tokens, eos) = 1)
    /\ [][/\ \A k \in (Len(cbs_finalized) + 1)..Len(cbs_finalized') :
              /\ Len(cbs_finalized'[k].tokens) = Len(all_scores)
              /\ \E b \in Slots :
                    SubSeq(cbs_finalized'[k].tokens, 1, Len(all_scores) - 1)
                        = SubSeq(tokens[b], 2, Len(all_scores))
          /\ Len(bookkeep') > Len(bookkeep) =>
                \A b \in Slots :
                    SubSeq(tokens'[b], 1, Len(all_scores))
                        = tokens[Last(bookkeep')[b]]]_vars

\* a beam of size 2 with a hypothesis finalized at step 0 and one finalized at
\* step 1 from a slot that held token 3
C32_Witness ==
    /\ beam_size = 2
    /\ \E k \in 1..Len(cbs_finalized) : cbs_finalized[k].tokens = << eos >>
    /\ \E k \in 1..Len(cbs_finalized) : cbs_finalized[k].tokens = << 3, eos >>

\* C33: the step of a select_paths call never exceeds max_len, step max_len
\* itself ends in the AssertionError, and no slot's token row or score row
\* outgrows the max_len + 2 and max_len + 1 columns of the buffers.
C33_StepNeverExceedsMaxLen ==
    /\ LastStep <= max_len
    /\ LastStep = max_len => phase = "raised" /\ error = "AssertionError"
    /\ \A b \in Slots :
          /\ Len(tokens[b]) <= max_len + 2
          /\ Len(cbs_scores[b]) <= max_len + 1

\* the call of step max_len has raised with the rows filled by max_len steps
C33_Witness ==
    /\ LastStep = max_len
    /\ phase = "raised"
    /\ Len(tokens[0]) = max_len + 1
    /\ Len(cbs_scores[0]) = max_len

\* C34: for every slot, the partial hypothesis is the token sequence read by
\* walking the backpointers from the last timestep and that slot back to
\* timestep 0 through outputs.
C34_PartialHypsFollowBackpointers ==
    \A h \in Slots : partial_hyps[h] = HypTokens(outputs, Len(outputs) - 1, h)

\* the token tok appended to hyp completes the phrase g
Completes(hyp, tok, g) ==
    /\ g[Len(g)] = tok
    /\ Len(hyp) >= Len(g) - 1
    /\ SubSeq(hyp, Len(hyp) - Len(g) + 2, Len(hyp)) = SubSeq(g, 1, Len(g) - 1)

\* C35: with a block list set, a slot that leaves an advance with a finite
\* cumulative score was not given a token that completes a listed phrase after
\* the partial hypothesis of its source slot, whatever the phrase's length, and
\* no slot with a finite cumulative score holds a partial hypothesis that ends
\* in a listed phrase.
C35_BlockListNeverCompleted ==
    /\ [](block_list # None /\ scores # None =>
            \A h \in DOMAIN scores : scores[h] # NegInf =>
                \A g \in Get(block_list) :
                    ~(/\ Len(partial_hyps[h]) >= Len(g)
                      /\ SubSeq(partial_hyps[h], Len(partial_hyps[h]) - Len(g) + 1,
                                Len(partial_hyps[h])) = g))
    /\ [][block_list # None /\ Len(bookkeep') > Len(bookkeep) =>
            \A h \in Slots : scores'[h] # NegInf =>
                \A g \in Get(block_list) :
                    ~Completes(partial_hyps[Last(bookkeep')[h]],
                               Last(outputs')[h], g)]_vars

\* a slot with a finite score that went on after the tokens bos, 3, bos, from
\* which the token 3 would complete the three-token phrase 3, bos, 3
C35_Witness ==
    /\ block_list = Some({<< bos, eos >>, << 3, bos, 3 >>})
    /\ scores # None
    /\ \E h \in DOMAIN scores :
          /\ scores[h] # NegInf
          /\ Len(partial_hyps[h]) = 4
          /\ SubSeq(partial_hyps[h], 1, 3) = << bos, 3, bos >>

\* C36: an advance of a DelayedBeamSearch whose current length is below the
\* delay leaves what sampling leaves, every slot continued from itself; an
\* advance at or above the delay leaves what beam selection leaves, scores in
\* non-increasing order of slot, all slots continued from slot 0 at the first
\* step and no (source slot, token) pair taken twice; the current length grows
\* with every advance, so no sampling step follows a beam step.
C36_SampleBelowDelayThenBeam ==
    [][policy.name = "delayed" /\ Len(bookkeep') > Len(bookkeep) =>
        /\ Len(all_scores') = Len(all_scores) + 1
        /\ Len(all_scores) - 1 < policy.delay =>
              \A h \in Slots : Last(bookkeep')[h] = h
        /\ Len(all_scores) - 1 >= policy.delay =>
              /\ \A h \in Slots \ {0} : scores'[h - 1] >= scores'[h]
              /\ scores = None => \A h \in Slots : Last(bookkeep')[h] = 0
              /\ \A g, h \in Slots :
                    (/\ Last(bookkeep')[g] = Last(bookkeep')[h]
                     /\ Last(outputs')[g] = Last(outputs')[h]) => g = h]_vars

\* a machine of delay 1 and beam size 2 that sampled once, every slot from
\* itself, and then took both slots from slot 1 by beam selection
C36_Witness ==
    /\ policy = Policy("delayed", 2, 1) /\ beam_size = 2
    /\ Len(bookkeep) = 2
    /\ bookkeep[1][0] = 0 /\ bookkeep[1][1] = 1
    /\ bookkeep[2][0] = 1 /\ bookkeep[2][1] = 1

\* a machine of delay 0 and beam size 2 whose first advance took both slots
\* from slot 0
C36_WitnessNoDelay ==
    /\ policy = Policy("delayed", 2, 0) /\ beam_size = 2
    /\ Len(bookkeep) >= 1
    /\ bookkeep[1][0] = 0 /\ bookkeep[1][1] = 0

\* C37: a nucleus selection on rows that each have a finite entry returns, for
\* every row, the row's own index as source slot and a token of non-zero
\* probability such that the tokens more probable than it weigh less than p of
\* the row, so the token's exclusive cumulative probability is below p; it fails
\* only when some row has no finite entry.
C37_NucleusKeepsBelowP ==
    ret # None =>
        /\ Get(ret).error = "none" <=>
              \A h \in Slots : \E t \in Tokens : Get(call).logprobs[h][t] # NegInf
        /\ Get(ret).error = "none" =>
              \A h \in Slots :
                  /\ Get(ret).hyp_ids[h] = h
                  /\ SoftmaxWeight(Get(call).logprobs[h], Get(ret).tok_ids[h]) > 0
                  /\ SetWeight(Get(call).logprobs[h],
                               {t \in Tokens : Get(call).logprobs[h][t]
                                                 > Get(call).logprobs[h][Get(ret).tok_ids[h]]})
                        * NucleusP.den
                      < NucleusP.num * SetWeight(Get(call).logprobs[h], Tokens)

\* a row whose most probable token has probability 4/6, above p = 1/2, and is
\* the token returned
C37_Witness ==
    /\ ret # None /\ beam_size = 1
    /\ Get(call).logprobs[0] = [t \in Tokens |-> IF t = pad THEN NegInf
                                                  ELSE IF t = 3 THEN -1 ELSE -3]
    /\ Get(ret).error = "none"
    /\ Get(ret).tok_ids[0] = 3

\* a row of probabilities 4/9, 4/9 and 1/9 whose second token, of exclusive
\* cumulative probability 4/9, is the token returned
C37_WitnessSecond ==
    /\ ret # None /\ beam_size = 1
    /\ Get(call).logprobs[0] = [t \in Tokens |-> IF t = pad THEN NegInf
                                                  ELSE IF t = 3 THEN -3 ELSE -1]
    /\ Get(call).tb = "lo"
    /\ Get(ret).error = "none"
    /\ Get(ret).tok_ids[0] = eos

\* C38: no advance turns is_done() from true to false, clears the slot-0
\* end-token flag, lowers the finished count or changes the timestep
\* remembered for slot 0's first end token once it is set; that timestep is
\* the first one at which slot 0 held the end token.
C38_IsDoneMonotone ==
    /\ [][/\ IsDone => IsDone'
          /\ eos_top => eos_top'
          /\ n_best_counter' >= n_best_counter
          /\ eos_top_ts # None => eos_top_ts' = eos_top_ts]_vars
    /\ [](/\ eos_top <=> eos_top_ts # None
          /\ eos_top <=> \E t \in 2..Len(outputs) : outputs[t][0] = eos
          /\ eos_top =>
                /\ outputs[Get(eos_top_ts) + 1][0] = eos
                /\ \A t \in 2..Get(eos_top_ts) : outputs[t][0] # eos)

\* a machine of beam size 2 that was done after its second advance, was
\* advanced once more, and whose slot 0 no longer holds the end token
C38_Witness ==
    /\ beam_size = 2
    /\ Len(bookkeep) = 3
    /\ DoneAt(2)
    /\ IsDone
    /\ Last(outputs)[0] # eos


====
